---- MODULE Spec2Model ----
(***************************************************************************)
(* Verification model of the orca orchestration runtime.                   *)
(*                                                                         *)
(*  Part I   map-reduce pipeline: Master, Worker pool, results channel     *)
(*  Part II  parallel embedding driver (OpenAI::generate_embeddings)       *)
(*  Part III simple pipeline with memory (LLMPipeline::execute / clone)    *)
(*                                                                         *)
(* Each part has its own specification over the shared variable tuple; the *)
(* variables of the other parts stay at their initial value.               *)
(***************************************************************************)
EXTENDS Integers, Sequences, FiniteSets, TLC

(***************************************************************************)
(* Bounds                                                                  *)
(***************************************************************************)
MaxRecords == 3

RecordNames == {"rec", "doc"}

MaxPrompts == 3

PromptIds == {"a", "bb"}

MaxCallers == 2

MaxExecs == 2

MaxLoads == 2

(***************************************************************************)
(* Program constants                                                       *)
(***************************************************************************)
MAX_RETRIES == 5

\* milliseconds
INITIAL_BACKOFF == 100

MAX_BACKOFF == 10000

(***************************************************************************)
(* Values shared by the parts                                              *)
(***************************************************************************)
NoVal == <<>>

NoTask == [task_type |-> "None", template_name |-> <<>>, record_name |-> "", record |-> <<>>]

Target == <<"mapreduce", 0>>

Pipelines == {"Map", "Reduce"}

\* Part III: the original pipeline and its clone, the concurrent callers of
\* execute, the allocations of Arc<Mutex<dyn Memory>>.
PipelineIds == {1, 2}

Callers == 1 .. MaxCallers

Cells == 1 .. Cardinality(PipelineIds)

TemplateNames == {"name", "other"}

ContextKeys == {"country"}

ContextValues == {"France"}

NoBody == "none"

\* Template bodies: two chat templates with one user turn, one plain text template.
Bodies == {"chat", "text"}

MemoryKinds == {"chat", "text"}

\* A prompt: ChatPrompt (items are messages) or String (items are pieces of text).
EmptyPrompt(kind) == [kind |-> kind, items |-> <<>>]

VARIABLES
    \* ---- Part I: map-reduce ----
    records,          \* MapReducePipeline.records : Vec<(String, Record)>
    templates,        \* template names registered in the map / reduce pipeline
    context,          \* context of the map / reduce pipeline : name -> content
    lock_writer,      \* RwLock<LLMPipeline> : worker holding the write guard, 0 if none
    lock_readers,     \* RwLock<LLMPipeline> : workers holding a read guard
    worker_channels,  \* per worker task queue (Receiver<WorkerTask> buffer)
    worker_pc,        \* position of each worker task
    worker_task,      \* task a worker is handling
    worker_tpl,       \* per-task template name returned by duplicate_template
    worker_result,    \* pipeline_result of the task being handled
    results,          \* results channel buffer (Receiver<WorkerMsg>)
    master_pc,        \* position of MapReducePipeline::execute / Master
    master_idx,       \* next record to dispatch in Master::map
    collector_pc,     \* position of the spawned collector task
    res,              \* Vec<String> of the map collector
    group,            \* Master.group : Option<Record>
    exec_result,      \* value returned by execute
    sent_log,         \* history: kinds of the messages sent on the results channel
    recv_log          \* history: <<phase, kind>> of the messages the collectors received

mrVars == <<records, templates, context, lock_writer, lock_readers, worker_channels,
            worker_pc, worker_task, worker_tpl, worker_result, results, master_pc,
            master_idx, collector_pc, res, group, exec_result, sent_log, recv_log>>

VARIABLES
    \* ---- Part II: parallel embedding driver ----
    prompts,          \* the batch handed to generate_embeddings
    request_builds,   \* whether generate_embedding_request(..) builds a request
    emb_pc,           \* position of generate_embeddings
    spawn_i,          \* index of the spawn loop
    embeddings,       \* the result vector
    emb_channel,      \* buffer of the bounded channel of (index, Result)
    sender_held,      \* the driver still holds its own Sender
    task_pc,          \* position of each spawned task
    task_result,      \* result of each task's request
    attempts,         \* send_with_exponential_backoff: attempts
    backoff,          \* send_with_exponential_backoff: backoff (ms)
    delays,           \* history: the delays each task has slept
    send_calls,       \* history: number of sender.send calls of each task
    emb_ret,          \* value returned by generate_embeddings
    emb_recv_log      \* history: <<index, kind>> of the messages the driver received

embVars == <<prompts, request_builds, emb_pc, spawn_i, embeddings, emb_channel, sender_held,
             task_pc, task_result, attempts, backoff, delays, send_calls, emb_ret,
             emb_recv_log>>

VARIABLES
    \* ---- Part III: simple pipeline with memory ----
    pl_exists,        \* the LLMPipeline values that exist
    pl_templates,     \* LLMPipeline.template_engine : name -> body
    pl_context,       \* LLMPipeline.context
    pl_memory,        \* LLMPipeline.memory : 0 for None, else the Arc's allocation
    mem_content,      \* the prompt held by each allocated memory
    mem_lock,         \* tokio Mutex of each memory: the caller holding it, 0 if free
    mem_log,          \* history: <<pipeline, rendered prompt>> saved into each memory
    exec_pc,          \* position of each caller in LLMPipeline::execute
    exec_pl,          \* the pipeline a caller executes
    exec_prompt,      \* the prompt rendered by the caller's execute
    llm_arg,          \* the prompt passed to llm.generate
    exec_ret,         \* what the most recently ended execute returned
    exec_count,       \* number of execute calls started
    load_count,       \* number of builder calls (load_template, load_memory, load_context)
    clone_shares      \* history: pipeline 2 was cloned and no memory was loaded since

plVars == <<pl_exists, pl_templates, pl_context, pl_memory, mem_content, mem_lock,
            mem_log, exec_pc, exec_pl, exec_prompt, llm_arg, exec_ret, exec_count,
            load_count, clone_shares>>

\* Library components: each has its own variables and is idle in the other specifications.
\* Context of a pipeline: keys, values, and the number of load calls explored.
MaxCtxCalls == 3

CtxKeys == {"a", "b", "c"}

CtxVals == {"x", "y"}

Absent == "absent"

EmptyContext == [k \in CtxKeys |-> Absent]

NoCall == [op |-> "none", arg |-> EmptyContext]

VARIABLES
    pipeline_context, \* LLMPipeline.context: key -> value, Absent when the key is not in the map
    ctx_alive,        \* the pipeline value exists (it is moved into each call, and dropped on Err)
    ctx_ret,          \* what the last load call returned
    ctx_before,       \* history: the context when the last call started
    ctx_call,         \* history: the last call and its argument
    ctx_calls         \* number of load calls made

ctxVars == <<pipeline_context, ctx_alive, ctx_ret, ctx_before, ctx_call, ctx_calls>>

CtxOff ==
    /\ pipeline_context = EmptyContext
    /\ ctx_alive = FALSE
    /\ ctx_ret = "none"
    /\ ctx_before = EmptyContext
    /\ ctx_call = NoCall
    /\ ctx_calls = 0

\* Template bodies are sequences of tokens: the chat envelope's opening and
\* closing tags and role blocks {{#role}}content{{/role}}.
MaxAdds == 3

ChatOpen == <<"{{#chat}}">>

ChatClose == <<"{{/chat}}">>

RoleBlocks == {<<"role", "system", "Be brief">>, <<"role", "user", "Hi">>, <<"role", "user", "Paris">>}

VARIABLES
    tpl_body,         \* TemplateEngine.templates[name]
    tpl_messages,     \* history: the messages of the original body and of the suffixes, in order
    tpl_adds          \* number of add_to_template calls made

tplVars == <<tpl_body, tpl_messages, tpl_adds>>

TplOff ==
    /\ tpl_body = <<>>
    /\ tpl_messages = <<>>
    /\ tpl_adds = 0

\* Prompts that are saved into one another.
MaxSaves == 3

TextItems == {<<"txt", "Hello", "">>, <<"txt", "Bye", "">>}

ChatItems == {<<"msg", "user", "Hi", "">>, <<"msg", "system", "Be brief", "">>}

VARIABLES
    save_target,      \* the prompt save is called on (a String or a ChatPrompt)
    save_data,        \* history: the argument of the last save
    save_before,      \* history: the target when the last save started
    save_outcome,     \* how the last save ended: "unit" (it returned ()) or "panic"
    save_count        \* number of save calls made

saveVars == <<save_target, save_data, save_before, save_outcome, save_count>>

SaveOff ==
    /\ save_target = [kind |-> "none", items |-> <<>>]
    /\ save_data = [kind |-> "none", items |-> <<>>]
    /\ save_before = [kind |-> "none", items |-> <<>>]
    /\ save_outcome = "none"
    /\ save_count = 0

\* Calls of the remote chat back-end's generate.
MaxGenerates == 3

HttpOutcomes == {"success", "success unparsable", "too many requests", "other status", "transport error"}

VARIABLES
    gen_prompt,       \* the prompt of the current (or last) generate call
    gen_pc,           \* "idle", or "sending" while client.execute(req) is awaited
    gen_ret,          \* how the last generate call ended: "Ok", "Err", "panic"
    gen_exec_ret,     \* how the pipeline execute that made the call ended
    gen_sent,         \* number of requests handed to the HTTP client
    gen_sent_before,  \* history: gen_sent when the last call started
    gen_calls         \* number of generate calls made

genVars == <<gen_prompt, gen_pc, gen_ret, gen_exec_ret, gen_sent, gen_sent_before, gen_calls>>

GenOff ==
    /\ gen_prompt = [kind |-> "none", items |-> <<>>]
    /\ gen_pc = "off"
    /\ gen_ret = "none"
    /\ gen_exec_ret = "none"
    /\ gen_sent = 0
    /\ gen_sent_before = 0
    /\ gen_calls = 0

\* Sequential pipeline: number of inner pipelines, runs of execute, and the
\* texts an inner step may return.
MaxSteps == 3

MaxRuns == 2

ResponseTexts == {"", "Paris", "Rome"}

ChatBody == <<ChatOpen, <<"role", "system", "Be brief">>, ChatClose>>

TextBody == <<<<"text", "Hello", "">>>>

Unregistered == <<<<"unregistered", "", "">>>>

VARIABLES
    seq_templates,    \* per inner pipeline, the body of its target template
    seq_pc,           \* "idle", "step" (top of the for loop), "awaiting" (inner execute)
    seq_k,            \* the inner pipeline the loop is at
    seq_response,     \* the local `response`
    seq_result,       \* the local `result`: <<"default", "">> or <<"step k", text>>
    seq_ret,          \* what the last execute returned
    seq_log,          \* history: the steps executed in the current run
    seq_touched,      \* history: the inner pipelines whose template was modified in the current run
    seq_runs,         \* number of execute calls made
    seq_clean,        \* history: every step of every run so far returned Ok with a non-empty text
    seq_returned      \* history: per inner pipeline, the texts it returned, run after run

seqVars == <<seq_templates, seq_pc, seq_k, seq_response, seq_result, seq_ret, seq_log,
             seq_touched, seq_runs, seq_clean, seq_returned>>

SeqOff ==
    /\ seq_templates = <<>>
    /\ seq_pc = "off"
    /\ seq_k = 0
    /\ seq_response = ""
    /\ seq_result = <<0, "">>
    /\ seq_ret = <<"none", 0, "">>
    /\ seq_log = <<>>
    /\ seq_touched = {}
    /\ seq_runs = 0
    /\ seq_clean = FALSE
    /\ seq_returned = <<>>

\* Vector store: batch sizes, the calls explored, vectors and payloads.
MaxPoints == 3

MaxInserts == 2

NoPoint == <<<<"none", 0, 0>>, <<"none", 0, 0>>>>

PointIds == 0 .. MaxPoints

VARIABLES
    qd_points,        \* the collection: point id -> <<vector, payload>>, NoPoint when absent
    qd_ret,           \* what the last insert_many returned
    qd_vectors,       \* history: the vectors of the last call
    qd_payloads,      \* history: the payloads of the last call
    qd_before,        \* history: the collection when the last call started
    qd_upserts,       \* number of upsert requests sent
    qd_inserts        \* number of insert_many calls made

insVars == <<qd_points, qd_ret, qd_vectors, qd_payloads, qd_before, qd_upserts, qd_inserts>>

InsOff ==
    /\ qd_points = [id \in PointIds |-> NoPoint]
    /\ qd_ret = "off"
    /\ qd_vectors = <<>>
    /\ qd_payloads = <<>>
    /\ qd_before = [id \in PointIds |-> NoPoint]
    /\ qd_upserts = 0
    /\ qd_inserts = 0

\* Search conditions: how many a search carries, the searches explored, and
\* the kinds of a qdrant Value.
MaxConditions == 2

MaxSearches == 2

ValueKinds == {"BoolValue", "IntegerValue", "StringValue", "DoubleValue", "StructValue",
               "ListValue", "NullValue", "None"}

NoFilter == <<<<"no filter", "">>>>

VARIABLES
    srch_conditions,  \* history: the kinds of the values in the conditions of the last search
    srch_filter,      \* the filter of the request the last search sent
    srch_ret,         \* how the last search ended: "Ok", "Err", "panic"
    srch_requests,    \* number of search requests sent
    srch_requests_before, \* history: srch_requests when the last search started
    srch_calls        \* number of search calls made

srchVars == <<srch_conditions, srch_filter, srch_ret, srch_requests, srch_requests_before,
              srch_calls>>

SrchOff ==
    /\ srch_conditions = <<>>
    /\ srch_filter = NoFilter
    /\ srch_ret = "off"
    /\ srch_requests = 0
    /\ srch_requests_before = 0
    /\ srch_calls = 0

\* Role-block content: its length, the characters it is drawn from, and the
\* roles of the role helpers.
MaxContentLen == 2

Control == {"\n"}

Whitespace == {" ", "\n"}

Printable == {"a", "u", "0", " ", "\"", "\\", "/", "{", "}", "[", "]", ",", ":", "&"}

Chars == Printable \cup Control

Roles == {"system", "user", "assistant"}

VARIABLES
    esc_content,      \* the content a role block renders to, as characters
    esc_role,         \* the role of the block
    esc_rendered,     \* the rendered chat, as pieces of JSON text
    esc_parsed,       \* what parsing the rendered chat gave: <<status, role, content>>
    esc_pc            \* "start", "rendered", "parsed"

escVars == <<esc_content, esc_role, esc_rendered, esc_parsed, esc_pc>>

EscOff ==
    /\ esc_content = <<>>
    /\ esc_role = "off"
    /\ esc_rendered = <<>>
    /\ esc_parsed = <<"off", "", <<>>>>
    /\ esc_pc = "off"

\* Local text generation: the largest sample_len explored and the tokens.
MaxSampleLen == 3

EosToken == "</s>"

Vocabulary == {EosToken, "a", "b"}

VARIABLES
    tg_sample_len,    \* the sample_len of the run
    tg_prompt_len,    \* number of tokens the prompt encoded to
    tg_tokens,        \* tokens: the prompt's tokens, then the sampled ones
    tg_generated,     \* generated_tokens
    tg_index,         \* index of the for loop
    tg_output,        \* the output sink: <<"prompt" or "sampled", token>> per write
    tg_ret,           \* what run returned
    tg_pc             \* "idle", "loop", "after", "done"

tgVars == <<tg_sample_len, tg_prompt_len, tg_tokens, tg_generated, tg_index, tg_output,
            tg_ret, tg_pc>>

TgOff ==
    /\ tg_sample_len = 0
    /\ tg_prompt_len = 0
    /\ tg_tokens = <<>>
    /\ tg_generated = 0
    /\ tg_index = 0
    /\ tg_output = <<>>
    /\ tg_ret = "off"
    /\ tg_pc = "off"

\* Shared encoder back-end: the concurrent embedders and the calls each makes.
MaxEmbedders == 2

MaxBertCalls == 2

Embedders == 1 .. MaxEmbedders

VARIABLES
    bert_loaded,      \* model and tokenizer are Some (build_model_and_tokenizer ran)
    tok_writer,       \* RwLock<Tokenizer>: the caller holding the write guard, 0 if none
    tok_padding,      \* padding strategy the tokenizer is configured with
    bert_pc,          \* position of each caller
    bert_kind,        \* "single" (generate_embedding) or "batch" (generate_embeddings)
    bert_ret,         \* what the last call of each caller returned
    bert_calls        \* number of calls each caller has made

bertVars == <<bert_loaded, tok_writer, tok_padding, bert_pc, bert_kind, bert_ret, bert_calls>>

BertOff ==
    /\ bert_loaded = FALSE
    /\ tok_writer = 0
    /\ tok_padding = "off"
    /\ bert_pc = <<>>
    /\ bert_kind = <<>>
    /\ bert_ret = <<>>
    /\ bert_calls = <<>>

\* Template duplication: the uuids drawn, the calls explored, and the names.
MaxUuids == 2

MaxDupCalls == 3

Uuids == {<<"uuid", i>> : i \in 1 .. MaxUuids}

BaseNames == {<<"name", 0>>, <<"name", 1>>}

VARIABLES
    registry,         \* TemplateEngine.templates: the registered names and their bodies
    dup_before,       \* history: the registry when the last call started
    dup_call,         \* history: the last call, <<operation, name>>
    dup_ret,          \* what the last duplicate_template returned: <<status, name>>
    dup_calls         \* number of calls made

dupVars == <<registry, dup_before, dup_call, dup_ret, dup_calls>>

DupOff ==
    /\ registry = {}
    /\ dup_before = {}
    /\ dup_call = <<"off", <<>>>>
    /\ dup_ret = <<"off", <<>>>>
    /\ dup_calls = 0

libVars == <<ctxVars, tplVars, saveVars, genVars, seqVars, insVars, srchVars, escVars, tgVars, bertVars, dupVars>>

\* Every library component but the named one is idle.
LibOff(part) ==
    /\ IF part = "ctx" THEN TRUE ELSE CtxOff
    /\ IF part = "tpl" THEN TRUE ELSE TplOff
    /\ IF part = "save" THEN TRUE ELSE SaveOff
    /\ IF part = "gen" THEN TRUE ELSE GenOff
    /\ IF part = "seq" THEN TRUE ELSE SeqOff
    /\ IF part = "ins" THEN TRUE ELSE InsOff
    /\ IF part = "srch" THEN TRUE ELSE SrchOff
    /\ IF part = "esc" THEN TRUE ELSE EscOff
    /\ IF part = "tg" THEN TRUE ELSE TgOff
    /\ IF part = "bert" THEN TRUE ELSE BertOff
    /\ IF part = "dup" THEN TRUE ELSE DupOff

nonCtxVars == <<mrVars, embVars, plVars, tplVars, saveVars, genVars, seqVars, insVars, srchVars, escVars, tgVars, bertVars, dupVars>>

nonTplVars == <<mrVars, embVars, plVars, ctxVars, saveVars, genVars, seqVars, insVars, srchVars, escVars, tgVars, bertVars, dupVars>>

nonSaveVars == <<mrVars, embVars, plVars, ctxVars, tplVars, genVars, seqVars, insVars, srchVars, escVars, tgVars, bertVars, dupVars>>

nonGenVars == <<mrVars, embVars, plVars, ctxVars, tplVars, saveVars, seqVars, insVars, srchVars, escVars, tgVars, bertVars, dupVars>>

nonSeqVars == <<mrVars, embVars, plVars, ctxVars, tplVars, saveVars, genVars, insVars, srchVars, escVars, tgVars, bertVars, dupVars>>

nonInsVars == <<mrVars, embVars, plVars, ctxVars, tplVars, saveVars, genVars, seqVars, srchVars, escVars, tgVars, bertVars, dupVars>>

nonSrchVars == <<mrVars, embVars, plVars, ctxVars, tplVars, saveVars, genVars, seqVars, insVars, escVars, tgVars, bertVars, dupVars>>

nonEscVars == <<mrVars, embVars, plVars, ctxVars, tplVars, saveVars, genVars, seqVars, insVars, srchVars, tgVars, bertVars, dupVars>>

nonTgVars == <<mrVars, embVars, plVars, ctxVars, tplVars, saveVars, genVars, seqVars, insVars, srchVars, escVars, bertVars, dupVars>>

nonBertVars == <<mrVars, embVars, plVars, ctxVars, tplVars, saveVars, genVars, seqVars, insVars, srchVars, escVars, tgVars, dupVars>>

nonDupVars == <<mrVars, embVars, plVars, ctxVars, tplVars, saveVars, genVars, seqVars, insVars, srchVars, escVars, tgVars, bertVars>>

\* End of the library components' declarations.

vars == <<mrVars, embVars, plVars, libVars>>

\* Frames: the variables of the other parts.
nonMRVars == <<embVars, plVars, libVars>>

nonEmbVars == <<mrVars, plVars, libVars>>

nonPLVars == <<mrVars, embVars, libVars>>

(***************************************************************************)
(* Part I.  Map-reduce pipeline                                            *)
(***************************************************************************)
N == Len(records)

Workers == 1 .. N

\* Pipeline a task of the given type is run on (worker.rs: match task.task_type).
PipelineOf(task_type) == IF task_type = "Map" THEN "Map" ELSE "Reduce"

\* Record::new(Content::String(..)) of input record i.
RecordContent(i) == <<"text", i>>

\* Text the back-end answers for a prompt rendered with value v bound to the record name.
Response(v) == <<"resp", v>>

\* A worker task is gone (returned or unwound): its receiver and its sender clone are dropped.
WorkerGone(w) == worker_pc[w] \in {"terminated", "panic_template", "panic_execute", "panic_send"}

\* The Master value is dropped once execute has returned or unwound; it owns
\* worker_channels (the task senders) and one handle on the results receiver.
MasterGone == master_pc \in {"returned", "panicked"}

\* Every Sender<WorkerMsg> clone is dropped: the local one at the end of Master::new,
\* the others with the workers that hold them.
ResultsClosed == \A w \in Workers : WorkerGone(w)

\* The results receiver is dropped when the Master and every collector holding a clone are gone.
ReceiverDropped == MasterGone /\ collector_pc \notin {"map", "reduce"}

\* Chain::set_record / load_record as called by the worker: binds the record's
\* content to the name unless the name is already bound.
load_record(ctx, name, record) ==
    IF ctx[name] = NoVal THEN [ctx EXCEPT ![name] = record] ELSE ctx

\* uuid::Uuid::new_v4 in duplicate_template: a name no registered template has.
FreshName(tpls) == <<Target[1], Cardinality(tpls) + 1>>

\* Kind a worker reports for a finished task (WorkerMsg.task_completed).
TaskCompletedMut(task) == "Reduce"

TaskCompleted(task) == task.task_type

\* generate_embeddings has not been called.
EmbOff ==
    /\ prompts = <<>>
    /\ request_builds = TRUE
    /\ emb_pc = "off"
    /\ spawn_i = 1
    /\ embeddings = <<>>
    /\ emb_channel = <<>>
    /\ sender_held = FALSE
    /\ task_pc = <<>>
    /\ task_result = <<>>
    /\ attempts = <<>>
    /\ backoff = <<>>
    /\ delays = <<>>
    /\ send_calls = <<>>
    /\ emb_ret = NoVal
    /\ emb_recv_log = <<>>

\* No simple pipeline has been built.
PLOff ==
    /\ pl_exists = {}
    /\ pl_templates = [p \in PipelineIds |-> [n \in TemplateNames |-> NoBody]]
    /\ pl_context = [p \in PipelineIds |-> [k \in ContextKeys |-> ""]]
    /\ pl_memory = [p \in PipelineIds |-> 0]
    /\ mem_content = [m \in Cells |-> EmptyPrompt("none")]
    /\ mem_lock = [m \in Cells |-> 0]
    /\ mem_log = [m \in Cells |-> <<>>]
    /\ exec_pc = [c \in Callers |-> "idle"]
    /\ exec_pl = [c \in Callers |-> 0]
    /\ exec_prompt = [c \in Callers |-> EmptyPrompt("none")]
    /\ llm_arg = [c \in Callers |-> EmptyPrompt("none")]
    /\ exec_ret = "none"
    /\ exec_count = 0
    /\ load_count = 0
    /\ clone_shares = FALSE

InitMR ==
    /\ EmbOff
    /\ PLOff
    /\ LibOff("none")
    /\ \E n \in 1 .. MaxRecords :
         \E names \in [1 .. n -> RecordNames] :
            records = [i \in 1 .. n |-> [name |-> names[i], record |-> RecordContent(i)]]
    /\ \E has \in BOOLEAN :
         templates = [p \in Pipelines |-> IF has THEN {Target} ELSE {}]
    /\ context = [p \in Pipelines |-> [k \in RecordNames \cup {""} |-> NoVal]]
    /\ lock_writer = [p \in Pipelines |-> 0]
    /\ lock_readers = [p \in Pipelines |-> {}]
    /\ worker_channels = [w \in Workers |-> <<>>]
    /\ worker_pc = [w \in Workers |-> "idle"]
    /\ worker_task = [w \in Workers |-> NoTask]
    /\ worker_tpl = [w \in Workers |-> <<>>]
    /\ worker_result = [w \in Workers |-> NoVal]
    /\ results = <<>>
    /\ master_pc = "map_send"
    /\ master_idx = 1
    /\ collector_pc = "map"
    /\ res = <<>>
    /\ group = NoVal
    /\ exec_result = NoVal
    /\ sent_log = <<>>
    /\ recv_log = <<>>

\* Worker::spawn, `while let Some(task) = receiver.recv().await`: take the next
\* task, or leave the loop when the queue is empty and every task sender is dropped.
WorkerRecv(w) ==
    /\ worker_pc[w] = "idle"
    /\ IF worker_channels[w] # <<>>
       THEN /\ worker_task' = [worker_task EXCEPT ![w] = Head(worker_channels[w])]
            /\ worker_channels' = [worker_channels EXCEPT ![w] = Tail(@)]
            /\ worker_pc' = [worker_pc EXCEPT ![w] = "acquire_write"]
       ELSE /\ MasterGone
            /\ worker_pc' = [worker_pc EXCEPT ![w] = "terminated"]
            /\ UNCHANGED <<worker_task, worker_channels>>
    /\ UNCHANGED nonMRVars
    /\ UNCHANGED <<records, templates, context, lock_writer, lock_readers, worker_tpl,
                   worker_result, results, master_pc, master_idx, collector_pc, res,
                   group, exec_result, sent_log, recv_log>>

\* map_pipeline.write().await / reduce_pipeline.write().await
WorkerAcquireWrite(w) ==
    LET p == PipelineOf(worker_task[w].task_type) IN
    /\ worker_pc[w] = "acquire_write"
    /\ lock_writer[p] = 0
    /\ lock_readers[p] = {}
    /\ lock_writer' = [lock_writer EXCEPT ![p] = w]
    /\ worker_pc' = [worker_pc EXCEPT ![w] = "write_locked"]
    /\ UNCHANGED nonMRVars
    /\ UNCHANGED <<records, templates, context, lock_readers, worker_channels, worker_task,
                   worker_tpl, worker_result, results, master_pc, master_idx, collector_pc,
                   res, group, exec_result, sent_log, recv_log>>

\* The write guard goes out of scope at the end of the block (worker.rs:49),
\* also when the block unwinds.
DropWriteGuardMut(writer, p) == writer

DropWriteGuard(writer, p) == [writer EXCEPT ![p] = 0]

\* Under the write guard: duplicate_template (panic when the template does not
\* exist), load_record, then the guard is dropped at the end of the block.
WorkerDuplicateLoad(w) ==
    LET task == worker_task[w]
        p == PipelineOf(task.task_type)
    IN
    /\ worker_pc[w] = "write_locked"
    /\ lock_writer' = DropWriteGuard(lock_writer, p)
    /\ IF task.template_name \in templates[p]
       THEN /\ worker_tpl' = [worker_tpl EXCEPT ![w] = FreshName(templates[p])]
            /\ templates' = [templates EXCEPT ![p] = @ \cup {FreshName(templates[p])}]
            /\ context' = [context EXCEPT ![p] = load_record(@, task.record_name, task.record)]
            /\ worker_pc' = [worker_pc EXCEPT ![w] = "acquire_read"]
       ELSE /\ worker_pc' = [worker_pc EXCEPT ![w] = "panic_template"]
            /\ UNCHANGED <<worker_tpl, templates, context>>
    /\ UNCHANGED nonMRVars
    /\ UNCHANGED <<records, lock_readers, worker_channels, worker_task, worker_result,
                   results, master_pc, master_idx, collector_pc, res, group, exec_result,
                   sent_log, recv_log>>

\* map_pipeline.read().await / reduce_pipeline.read().await
WorkerAcquireRead(w) ==
    LET p == PipelineOf(worker_task[w].task_type) IN
    /\ worker_pc[w] = "acquire_read"
    /\ lock_writer[p] = 0
    /\ lock_readers' = [lock_readers EXCEPT ![p] = @ \cup {w}]
    /\ worker_pc' = [worker_pc EXCEPT ![w] = "executing"]
    /\ UNCHANGED nonMRVars
    /\ UNCHANGED <<records, templates, context, lock_writer, worker_channels, worker_task,
                   worker_tpl, worker_result, results, master_pc, master_idx, collector_pc,
                   res, group, exec_result, sent_log, recv_log>>

\* locked_pipeline.execute(&template_name).await.unwrap_or_else(|e| panic!(..)):
\* the back-end answers or fails; a failure unwinds the worker task.
WorkerExecute(w) ==
    LET task == worker_task[w]
        p == PipelineOf(task.task_type)
    IN
    /\ worker_pc[w] = "executing"
    /\ \E ok \in BOOLEAN :
         IF ok
         THEN /\ worker_result' = [worker_result EXCEPT ![w] = Response(context[p][task.record_name])]
              /\ worker_pc' = [worker_pc EXCEPT ![w] = "sending"]
              /\ UNCHANGED lock_readers
         ELSE /\ worker_pc' = [worker_pc EXCEPT ![w] = "panic_execute"]
              /\ lock_readers' = [lock_readers EXCEPT ![p] = @ \ {w}]
              /\ UNCHANGED worker_result
    /\ UNCHANGED nonMRVars
    /\ UNCHANGED <<records, templates, context, lock_writer, worker_channels, worker_task,
                   worker_tpl, results, master_pc, master_idx, collector_pc, res, group,
                   exec_result, sent_log, recv_log>>

\* sender.lock().await.send(WorkerMsg{..}).await.unwrap_or_else(|e| panic!()); the
\* read guard is dropped at the end of the loop body.  The channel capacity
\* (size_of::<WorkerMsg>() * num_workers) exceeds the N + 1 messages of a run.
WorkerSend(w) ==
    LET task == worker_task[w]
        p == PipelineOf(task.task_type)
        msg == [task_completed |-> TaskCompleted(task), pipeline_result |-> worker_result[w]]
    IN
    /\ worker_pc[w] = "sending"
    /\ lock_readers' = [lock_readers EXCEPT ![p] = @ \ {w}]
    /\ IF ReceiverDropped
       THEN /\ worker_pc' = [worker_pc EXCEPT ![w] = "panic_send"]
            /\ UNCHANGED <<results, sent_log>>
       ELSE /\ results' = Append(results, msg)
            /\ sent_log' = Append(sent_log, msg.task_completed)
            /\ worker_pc' = [worker_pc EXCEPT ![w] = "idle"]
    /\ UNCHANGED nonMRVars
    /\ UNCHANGED <<records, templates, context, lock_writer, worker_channels, worker_task,
                   worker_tpl, worker_result, master_pc, master_idx, collector_pc, res,
                   group, exec_result, recv_log>>

\* Master::map, dispatch loop: worker_channels.pop() hands record i to worker N - i + 1.
MasterDispatch ==
    LET w == N - master_idx + 1
        task == [task_type |-> "Map", template_name |-> Target,
                 record_name |-> records[master_idx].name,
                 record |-> records[master_idx].record]
    IN
    /\ master_pc = "map_send"
    /\ IF WorkerGone(w)
       THEN /\ master_pc' = "panicked"
            /\ UNCHANGED <<worker_channels, master_idx>>
       ELSE /\ worker_channels' = [worker_channels EXCEPT ![w] = Append(@, task)]
            /\ master_idx' = master_idx + 1
            /\ master_pc' = IF master_idx = N THEN "map_await" ELSE "map_send"
    /\ UNCHANGED nonMRVars
    /\ UNCHANGED <<records, templates, context, lock_writer, lock_readers, worker_pc,
                   worker_task, worker_tpl, worker_result, results, collector_pc, res,
                   group, exec_result, sent_log, recv_log>>

\* Collector task of Master::map: `while let Some(msg) = ..recv().await`.
MapCollectorRecv ==
    /\ collector_pc = "map"
    /\ results # <<>>
    /\ results' = Tail(results)
    /\ recv_log' = Append(recv_log, <<"map", Head(results).task_completed>>)
    /\ IF Head(results).task_completed = "Map"
       THEN /\ res' = Append(res, Head(results).pipeline_result)
            /\ UNCHANGED collector_pc
       ELSE /\ collector_pc' = "panic_reduce_before_map"
            /\ UNCHANGED res
    /\ UNCHANGED nonMRVars
    /\ UNCHANGED <<records, templates, context, lock_writer, lock_readers, worker_channels,
                   worker_pc, worker_task, worker_tpl, worker_result, master_pc, master_idx,
                   group, exec_result, sent_log>>

\* recv() yields None only when the buffer is empty and every sender is dropped.
MapCollectorClosed ==
    /\ collector_pc = "map"
    /\ results = <<>>
    /\ ResultsClosed
    /\ collector_pc' = "map_done"
    /\ UNCHANGED nonMRVars
    /\ UNCHANGED <<records, templates, context, lock_writer, lock_readers, worker_channels,
                   worker_pc, worker_task, worker_tpl, worker_result, results, master_pc,
                   master_idx, res, group, exec_result, sent_log, recv_log>>

\* Master::map, `self.group = Some(record.await.unwrap())`, then Master::reduce
\* spawns its collector.
MasterAwaitMap ==
    /\ master_pc = "map_await"
    /\ collector_pc \in {"map_done", "panic_reduce_before_map"}
    /\ IF collector_pc = "map_done"
       THEN /\ group' = <<"vec", res>>
            /\ master_pc' = "reduce_send"
            /\ collector_pc' = "reduce"
       ELSE /\ master_pc' = "panicked"
            /\ UNCHANGED <<group, collector_pc>>
    /\ UNCHANGED nonMRVars
    /\ UNCHANGED <<records, templates, context, lock_writer, lock_readers, worker_channels,
                   worker_pc, worker_task, worker_tpl, worker_result, results, master_idx,
                   res, exec_result, sent_log, recv_log>>

\* Collector task of Master::reduce.
ReduceCollector ==
    /\ collector_pc = "reduce"
    /\ IF results # <<>>
       THEN /\ results' = Tail(results)
            /\ recv_log' = Append(recv_log, <<"reduce", Head(results).task_completed>>)
            /\ collector_pc' = IF Head(results).task_completed = "Reduce"
                               THEN "reduce_done" ELSE "panic_map_before_reduce"
            /\ res' = IF Head(results).task_completed = "Reduce"
                      THEN <<Head(results).pipeline_result>> ELSE res
       ELSE /\ ResultsClosed
            /\ collector_pc' = "panic_no_reduce"
            /\ UNCHANGED <<results, recv_log, res>>
    /\ UNCHANGED nonMRVars
    /\ UNCHANGED <<records, templates, context, lock_writer, lock_readers, worker_channels,
                   worker_pc, worker_task, worker_tpl, worker_result, master_pc, master_idx,
                   group, exec_result, sent_log>>

\* The WorkerTask Master::reduce builds: record_name is "".into() and the record
\* is the group the map collector returned.
ReduceTask == [task_type |-> "Reduce", template_name |-> Target, record_name |-> "", record |-> group]

\* Master::reduce: send the Reduce task to worker_channels.first() (unwrap on a
\* send error), then `result.await.unwrap()`; execute wraps the value in Ok.
MasterReduce ==
    /\ master_pc \in {"reduce_send", "reduce_await"}
    /\ IF master_pc = "reduce_send"
       THEN /\ IF WorkerGone(1)
               THEN /\ master_pc' = "panicked"
                    /\ UNCHANGED worker_channels
               ELSE /\ worker_channels' =
                         [worker_channels EXCEPT ![1] = Append(@, ReduceTask)]
                    /\ master_pc' = "reduce_await"
            /\ UNCHANGED exec_result
       ELSE /\ collector_pc \in {"reduce_done", "panic_map_before_reduce", "panic_no_reduce"}
            /\ IF collector_pc = "reduce_done"
               THEN /\ master_pc' = "returned"
                    /\ exec_result' = <<"Ok", res[1]>>
               ELSE /\ master_pc' = "panicked"
                    /\ UNCHANGED exec_result
            /\ UNCHANGED worker_channels
    /\ UNCHANGED nonMRVars
    /\ UNCHANGED <<records, templates, context, lock_writer, lock_readers, worker_pc,
                   worker_task, worker_tpl, worker_result, results, master_idx, collector_pc,
                   res, group, sent_log, recv_log>>

NextMR ==
    \/ \E w \in Workers : WorkerRecv(w)
    \/ \E w \in Workers : WorkerAcquireWrite(w)
    \/ \E w \in Workers : WorkerDuplicateLoad(w)
    \/ \E w \in Workers : WorkerAcquireRead(w)
    \/ \E w \in Workers : WorkerExecute(w)
    \/ \E w \in Workers : WorkerSend(w)
    \/ MasterDispatch
    \/ MapCollectorRecv
    \/ MapCollectorClosed
    \/ MasterAwaitMap
    \/ ReduceCollector
    \/ MasterReduce

SpecMR == InitMR /\ [][NextMR]_vars

(***************************************************************************)
(* Properties of the map-reduce pipeline                                   *)
(***************************************************************************)
\* Nothing of the run can take a step any more.
MRQuiescent == ~ENABLED NextMR

NoWorkerFailed == \A w \in Workers : worker_pc[w] \notin {"panic_template", "panic_execute", "panic_send"}

ExecuteFailedOn(task_type) ==
    \E w \in Workers : worker_pc[w] = "panic_execute" /\ worker_task[w].task_type = task_type

CountSent(kind) == Cardinality({i \in 1 .. Len(sent_log) : sent_log[i] = kind})

ExecKind == IF exec_result = NoVal THEN "None" ELSE exec_result[1]

\* C1: over N records, when the run has come to rest with every worker
\* succeeding, exactly N Map messages and exactly one Reduce message have been
\* sent on the results channel.
C1_ExactlyNMapOneReduce ==
    (MRQuiescent /\ NoWorkerFailed) => (CountSent("Map") = N /\ CountSent("Reduce") = 1)

C3_ExecuteReturns ==
    (MRQuiescent /\ NoWorkerFailed) => (master_pc = "returned" /\ ExecKind = "Ok")

\* C4: a worker whose pipeline execution fails makes execute return an error
\* value, MapFailure for a Map task and ReduceFailure for the Reduce task;
\* execute neither hangs nor returns Ok.
C4_FailureIsReturned ==
    /\ (MRQuiescent /\ ExecuteFailedOn("Map")) =>
           (master_pc = "returned" /\ ExecKind = "MapFailure")
    /\ (MRQuiescent /\ ExecuteFailedOn("Reduce")) =>
           (master_pc = "returned" /\ ExecKind = "ReduceFailure")

\* C21: the Reduce task the master dispatches carries the record name "group"
\* and a record whose segments are the contents of the Map results in the
\* order the collector received them.
C21_ReduceTaskCarriesGroup ==
    master_pc = "reduce_send" =>
        /\ ReduceTask.record_name = "group"
        /\ ReduceTask.record = <<"vec", res>>

\* The pipeline the task of worker w runs on.
TaskPipeline(w) == PipelineOf(worker_task[w].task_type)

\* Where the locks stand at each position of a worker: the write guard is held
\* exactly between its acquisition and the end of the block, the read guard
\* exactly while executing and sending.
WorkerLocks ==
    \A w \in Workers :
        /\ (worker_pc[w] = "write_locked") <=> (\E p \in Pipelines : lock_writer[p] = w)
        /\ worker_pc[w] = "write_locked" => lock_writer[TaskPipeline(w)] = w
        /\ worker_pc[w] \in {"executing", "sending"} <=> (\E p \in Pipelines : w \in lock_readers[p])
        /\ worker_pc[w] \in {"executing", "sending"} =>
               (w \in lock_readers[TaskPipeline(w)] /\ lock_writer[TaskPipeline(w)] = 0)

\* The steps of a worker follow the order of the loop body, and each step does
\* its part: the block under the write guard registers the per-task template
\* and loads the record, and a sent message leaves the worker idle.
WorkerOrder ==
    \A w \in Workers :
        worker_pc'[w] # worker_pc[w] =>
            \/ /\ worker_pc[w] = "idle"
               /\ worker_pc'[w] = "acquire_write"
               /\ worker_channels[w] # <<>>
               /\ worker_task'[w] = Head(worker_channels[w])
            \/ /\ worker_pc[w] = "idle"
               /\ worker_pc'[w] = "terminated"
               /\ worker_channels[w] = <<>>
               /\ MasterGone
            \/ /\ worker_pc[w] = "acquire_write"
               /\ worker_pc'[w] = "write_locked"
            \/ /\ worker_pc[w] = "write_locked"
               /\ worker_pc'[w] = "acquire_read"
               /\ worker_tpl'[w] \notin templates[TaskPipeline(w)]
               /\ templates'[TaskPipeline(w)] = templates[TaskPipeline(w)] \cup {worker_tpl'[w]}
               /\ context'[TaskPipeline(w)][worker_task[w].record_name] # NoVal
            \/ /\ worker_pc[w] = "write_locked"
               /\ worker_pc'[w] = "panic_template"
            \/ /\ worker_pc[w] = "acquire_read"
               /\ worker_pc'[w] = "executing"
            \/ /\ worker_pc[w] = "executing"
               /\ worker_pc'[w] \in {"sending", "panic_execute"}
            \/ /\ worker_pc[w] = "sending"
               /\ worker_pc'[w] = "idle"
               /\ sent_log' = Append(sent_log, worker_task[w].task_type)
            \/ /\ worker_pc[w] = "sending"
               /\ worker_pc'[w] = "panic_send"

C27_TaskSeesOwnRecord ==
    \A w \in Workers :
        (worker_pc[w] = "executing" /\ worker_task[w].task_type = "Map") =>
            context["Map"][worker_task[w].record_name] = worker_task[w].record

(***************************************************************************)
(* Part II.  Parallel embedding driver                                     *)
(***************************************************************************)
\* MapReducePipeline::execute has not been called.
MROff ==
    /\ records = <<>>
    /\ templates = [p \in Pipelines |-> {}]
    /\ context = [p \in Pipelines |-> [k \in RecordNames \cup {""} |-> NoVal]]
    /\ lock_writer = [p \in Pipelines |-> 0]
    /\ lock_readers = [p \in Pipelines |-> {}]
    /\ worker_channels = <<>>
    /\ worker_pc = <<>>
    /\ worker_task = <<>>
    /\ worker_tpl = <<>>
    /\ worker_result = <<>>
    /\ results = <<>>
    /\ master_pc = "off"
    /\ master_idx = 1
    /\ collector_pc = "off"
    /\ res = <<>>
    /\ group = NoVal
    /\ exec_result = NoVal
    /\ sent_log = <<>>
    /\ recv_log = <<>>

num_prompts == Len(prompts)

Tasks == 1 .. num_prompts

\* OpenAIEmbeddingResponse::default(), the value the result vector is pre-filled with.
DefaultResponse == <<"default">>

\* The response the embeddings endpoint gives to the request built from prompt p.
EmbeddingOf(p) == <<"embedding", p>>

Min(a, b) == IF a <= b THEN a ELSE b

\* The Receiver lives until generate_embeddings returns or unwinds.
EmbReceiverAlive == emb_pc \in {"start", "spawn", "recv"}

\* Every Sender is dropped: the driver's own and the clone of every spawned task.
EmbChannelClosedMut == ~sender_held

EmbChannelClosed == ~sender_held /\ \A i \in Tasks : task_pc[i] \in {"unspawned", "done"}

\* `embeddings[i] = response` for the k-th received message.
StoreSlotMut(embs, i, response, k) == [embs EXCEPT ![k] = response]

StoreSlot(embs, i, response, k) == [embs EXCEPT ![i] = response]

\* `return Err(anyhow!("Failed to generate embedding index {}: {}", i, e))` for
\* the k-th received message.
GatherErrorMut(i, k) == <<"Err", k>>

GatherError(i, k) == <<"Err", i>>

\* generate_embeddings is called with up to MaxPrompts prompts; the prompt
\* texts are interchangeable, so the first one is fixed.
InitEmb ==
    /\ MROff
    /\ PLOff
    /\ LibOff("none")
    /\ \E n \in 0 .. MaxPrompts :
          prompts \in {p \in [1 .. n -> PromptIds] : n > 0 => p[1] = "a"}
    /\ request_builds \in BOOLEAN
    /\ emb_pc = "start"
    /\ spawn_i = 1
    /\ embeddings = <<>>
    /\ emb_channel = <<>>
    /\ sender_held = FALSE
    /\ task_pc = [i \in Tasks |-> "unspawned"]
    /\ task_result = [i \in Tasks |-> NoVal]
    /\ attempts = [i \in Tasks |-> 0]
    /\ backoff = [i \in Tasks |-> INITIAL_BACKOFF]
    /\ delays = [i \in Tasks |-> <<>>]
    /\ send_calls = [i \in Tasks |-> 0]
    /\ emb_ret = NoVal
    /\ emb_recv_log = <<>>

\* vec![OpenAIEmbeddingResponse::default(); num_prompts] and
\* tokio::sync::mpsc::channel(num_prompts), which panics on a capacity of 0.
EmbStart ==
    /\ emb_pc = "start"
    /\ IF num_prompts = 0
       THEN /\ emb_pc' = "panic"
            /\ UNCHANGED <<embeddings, sender_held>>
       ELSE /\ embeddings' = [i \in Tasks |-> DefaultResponse]
            /\ sender_held' = TRUE
            /\ emb_pc' = "spawn"
    /\ UNCHANGED <<prompts, request_builds, spawn_i, emb_channel, task_pc, task_result,
                   attempts, backoff, delays, send_calls, emb_ret, emb_recv_log>>
    /\ UNCHANGED nonEmbVars

\* One iteration of the spawn loop: clone the sender, build the request (`?`
\* returns the error and drops sender and receiver), spawn the task.
EmbSpawn ==
    /\ emb_pc = "spawn"
    /\ spawn_i <= num_prompts
    /\ IF request_builds
       THEN /\ task_pc' = [task_pc EXCEPT ![spawn_i] = "request"]
            /\ spawn_i' = spawn_i + 1
            /\ UNCHANGED <<emb_pc, emb_ret, sender_held, emb_channel>>
       ELSE /\ emb_pc' = "err"
            /\ emb_ret' = <<"RequestErr", 0>>
            /\ sender_held' = FALSE
            /\ emb_channel' = <<>>
            /\ UNCHANGED <<task_pc, spawn_i>>
    /\ UNCHANGED <<prompts, request_builds, embeddings, task_result, attempts, backoff,
                   delays, send_calls, emb_recv_log>>
    /\ UNCHANGED nonEmbVars

\* drop(sender)
EmbDropSender ==
    /\ emb_pc = "spawn"
    /\ spawn_i = num_prompts + 1
    /\ sender_held' = FALSE
    /\ emb_pc' = "recv"
    /\ UNCHANGED <<prompts, request_builds, spawn_i, embeddings, emb_channel, task_pc,
                   task_result, attempts, backoff, delays, send_calls, emb_ret, emb_recv_log>>
    /\ UNCHANGED nonEmbVars

\* Spawned task: client.execute(req) and res.json(), either of which may fail.
TaskExecute(i) ==
    /\ i \in Tasks
    /\ task_pc[i] = "request"
    /\ \E ok \in BOOLEAN :
         task_result' = [task_result EXCEPT ![i] =
                            IF ok THEN <<"Ok", EmbeddingOf(prompts[i])>> ELSE <<"Err", "request failed">>]
    /\ task_pc' = [task_pc EXCEPT ![i] = "send"]
    /\ UNCHANGED <<prompts, request_builds, emb_pc, spawn_i, embeddings, emb_channel,
                   sender_held, attempts, backoff, delays, send_calls, emb_ret, emb_recv_log>>
    /\ UNCHANGED nonEmbVars

\* backoff = std::cmp::min(backoff * 2, MAX_BACKOFF)
NextBackoffMut(b) == Min(b + INITIAL_BACKOFF, MAX_BACKOFF)

NextBackoff(b) == Min(b * 2, MAX_BACKOFF)

\* sender.send(message.clone()) returning Ok: the message is in the channel.
DeliverMut(channel, message) == channel

Deliver(channel, message) == Append(channel, message)

\* send_with_exponential_backoff(&sender, (i, result)): one pass of its loop.
\* sender.send waits for capacity and fails only when the receiver is dropped;
\* a failure is retried after sleeping `backoff` while attempts < MAX_RETRIES,
\* otherwise the error is returned, logged by the task, and the task ends.
TaskSend(i) ==
    /\ i \in Tasks
    /\ task_pc[i] = "send"
    /\ send_calls' = [send_calls EXCEPT ![i] = @ + 1]
    /\ IF EmbReceiverAlive
       THEN /\ Len(emb_channel) < num_prompts
            /\ emb_channel' = Deliver(emb_channel, <<i, task_result[i]>>)
            /\ task_pc' = [task_pc EXCEPT ![i] = "done"]
            /\ UNCHANGED <<attempts, backoff, delays>>
       ELSE /\ IF attempts[i] < MAX_RETRIES
               THEN /\ attempts' = [attempts EXCEPT ![i] = @ + 1]
                    /\ delays' = [delays EXCEPT ![i] = Append(@, backoff[i])]
                    /\ backoff' = [backoff EXCEPT ![i] = NextBackoff(backoff[i])]
                    /\ UNCHANGED task_pc
               ELSE /\ task_pc' = [task_pc EXCEPT ![i] = "done"]
                    /\ UNCHANGED <<attempts, backoff, delays>>
            /\ UNCHANGED emb_channel
    /\ UNCHANGED <<prompts, request_builds, emb_pc, spawn_i, embeddings, sender_held,
                   task_result, emb_ret, emb_recv_log>>
    /\ UNCHANGED nonEmbVars

\* Gather loop, `while let Some((i, result)) = receiver.recv().await`: store an
\* Ok response in slot i, return at the first Err.
EmbRecvMsg ==
    LET i == Head(emb_channel)[1]
        result == Head(emb_channel)[2]
        k == Len(emb_recv_log) + 1
    IN
    /\ emb_pc = "recv"
    /\ emb_channel # <<>>
    /\ emb_recv_log' = Append(emb_recv_log, <<i, result[1]>>)
    /\ IF result[1] = "Ok"
       THEN /\ embeddings' = StoreSlot(embeddings, i, result[2], k)
            /\ emb_channel' = Tail(emb_channel)
            /\ UNCHANGED <<emb_pc, emb_ret>>
       ELSE /\ emb_pc' = "err"
            /\ emb_ret' = GatherError(i, k)
            /\ emb_channel' = <<>>
            /\ UNCHANGED embeddings
    /\ UNCHANGED <<prompts, request_builds, spawn_i, sender_held, task_pc, task_result,
                   attempts, backoff, delays, send_calls>>
    /\ UNCHANGED nonEmbVars

\* recv() yields None when the buffer is empty and every sender is dropped:
\* Ok(EmbeddingResponse::OpenAI(embeddings)).
EmbRecvClosed ==
    /\ emb_pc = "recv"
    /\ emb_channel = <<>>
    /\ EmbChannelClosed
    /\ emb_pc' = "ok"
    /\ emb_ret' = <<"Ok", embeddings>>
    /\ UNCHANGED <<prompts, request_builds, spawn_i, embeddings, emb_channel, sender_held,
                   task_pc, task_result, attempts, backoff, delays, send_calls, emb_recv_log>>
    /\ UNCHANGED nonEmbVars

NextEmb ==
    \/ EmbStart
    \/ EmbSpawn
    \/ EmbDropSender
    \/ \E i \in Tasks : TaskExecute(i)
    \/ \E i \in Tasks : TaskSend(i)
    \/ EmbRecvMsg
    \/ EmbRecvClosed

SpecEmb == InitEmb /\ [][NextEmb]_vars

\* The runtime schedules every spawned task and the driver, and every request completes.
SpecEmbFair ==
    /\ SpecEmb
    /\ WF_vars(EmbStart) /\ WF_vars(EmbSpawn) /\ WF_vars(EmbDropSender)
    /\ WF_vars(EmbRecvMsg) /\ WF_vars(EmbRecvClosed)
    /\ \A i \in 1 .. MaxPrompts : WF_vars(TaskExecute(i)) /\ WF_vars(TaskSend(i))

(***************************************************************************)
(* Properties of the embedding driver.  Index i of the model is index      *)
(* i - 1 of the Rust vector.                                               *)
(***************************************************************************)
AllTasksDone == \A i \in Tasks : task_pc[i] = "done"

ErrPositions == {k \in 1 .. Len(emb_recv_log) : emb_recv_log[k][2] = "Err"}

EmbEnded == emb_pc \in {"ok", "err", "panic"}

\* C5: when generate_embeddings returns Ok, element i of the result is the
\* response to the request built from prompt i, whatever the completion order.
C5_ResultFollowsInputOrder ==
    emb_pc = "ok" =>
        /\ emb_ret[1] = "Ok"
        /\ Len(emb_ret[2]) = num_prompts
        /\ \A i \in Tasks : emb_ret[2][i] = EmbeddingOf(prompts[i])

\* Three prompts completed in the order 3, 1, 2 and Ok was returned.
C5_Witness ==
    /\ emb_pc = "ok"
    /\ num_prompts = 3
    /\ prompts[1] # prompts[2]
    /\ emb_recv_log = <<<<3, "Ok">>, <<1, "Ok">>, <<2, "Ok">>>>

C6_Safety ==
    /\ emb_pc = "ok" => (~sender_held /\ AllTasksDone /\ emb_channel = <<>> /\ ErrPositions = {})
    /\ (emb_pc = "err" /\ emb_ret[1] = "Err") => ErrPositions = {Len(emb_recv_log)}
    /\ Len(emb_recv_log) <= num_prompts
    /\ \A k \in 1 .. Len(emb_recv_log) :
          /\ emb_recv_log[k][1] \in Tasks
          /\ emb_recv_log[k][2] = task_result[emb_recv_log[k][1]][1]

C7_FirstErrAborts ==
    /\ emb_pc = "ok" => \A i \in Tasks : task_result[i][1] = "Ok"
    /\ ErrPositions # {} =>
          /\ ErrPositions = {Len(emb_recv_log)}
          /\ emb_pc = "err"
          /\ emb_ret = <<"Err", emb_recv_log[Len(emb_recv_log)][1]>>
          /\ task_result[emb_ret[2]][1] = "Err"

\* The error of task 1 was received as the second message, after an Ok.
C7_Witness ==
    /\ emb_pc = "err"
    /\ emb_recv_log = <<<<2, "Ok">>, <<1, "Err">>>>
    /\ emb_ret = <<"Err", 1>>

\* C23: the sender of a task calls send at most 5 times in total, and a task
\* that has given up has ended without a panic.
C23_AtMostFiveSends ==
    \A i \in Tasks : send_calls[i] <= 5

RECURSIVE Pow2(_)
Pow2(n) == IF n = 0 THEN 1 ELSE 2 * Pow2(n - 1)

\* C24: the delay slept before the k-th retry of a failed send is
\* min(100 ms * 2^(k-1), 10 s), so the first is 100 ms, each later one is the
\* double of the one before, and none exceeds 10 s.
C24_DelaysDoubleUpToCap ==
    \A i \in Tasks :
        /\ Len(delays[i]) = attempts[i]
        /\ \A k \in 1 .. Len(delays[i]) :
              /\ delays[i][k] = (IF 100 * Pow2(k - 1) <= 10000 THEN 100 * Pow2(k - 1) ELSE 10000)
              /\ delays[i][k] <= 10000

\* A task whose sends kept failing has slept 100, 200, 400, 800 and 1600 ms.
C24_Witness ==
    \E i \in Tasks :
        /\ task_pc[i] = "done"
        /\ delays[i] = <<100, 200, 400, 800, 1600>>

\* C28: when generate_embeddings returns Ok, every slot of the result holds a
\* response the driver received from that slot's task, none its pre-filled
\* default: every task delivered its message at its first send.
C28_OkMeansEverySlotFilled ==
    emb_pc = "ok" =>
        \A i \in Tasks :
            /\ embeddings[i] # DefaultResponse
            /\ \E k \in 1 .. Len(emb_recv_log) : emb_recv_log[k] = <<i, "Ok">>
            /\ send_calls[i] = 1
            /\ attempts[i] = 0

\* Ok was returned for two prompts whose responses arrived in the order 2, 1.
C28_Witness ==
    /\ emb_pc = "ok"
    /\ num_prompts = 2
    /\ emb_recv_log = <<<<2, "Ok">>, <<1, "Ok">>>>
    /\ \A i \in Tasks : embeddings[i] = EmbeddingOf(prompts[i])

\* C30: generate_embeddings called with an empty batch returns Ok with an
\* empty result vector and does not fail when it creates the channel.
C30_EmptyBatchIsOk ==
    (num_prompts = 0 /\ emb_pc # "start") => (emb_pc = "ok" /\ emb_ret = <<"Ok", <<>>>>)

(***************************************************************************)
(* Part III.  Simple pipeline with memory                                  *)
(***************************************************************************)
RECURSIVE JoinComma(_)
\* serde_json::to_string of a vector of messages, without the brackets.
JoinComma(items) ==
    IF Len(items) = 0 THEN <<>>
    ELSE IF Len(items) = 1 THEN items
    ELSE <<items[1], <<",">>>> \o JoinComma(Tail(items))

\* Display: a String is itself, a ChatPrompt is the JSON array of its messages.
to_string(prompt) ==
    IF prompt.kind = "chat" THEN <<<<"[">>>> \o JoinComma(prompt.items) \o <<<<"]">>>>
    ELSE prompt.items

\* TemplateEngine::render_context: the body with the context substituted (a
\* missing variable renders empty), parsed as a chat when it is one.
Render(body, ctx) ==
    IF body = "text"
    THEN [kind |-> "text", items |-> <<<<"txt", body, ctx["country"]>>>>]
    ELSE [kind |-> "chat", items |-> <<<<"msg", "user", body, ctx["country"]>>>>]

\* ChatBuffer.memory() is a ChatPrompt: save is data.to_chat().unwrap(), which
\* panics for a String (to_chat is unimplemented!).
CanSave(mem, data) == mem.kind = "chat" => data.kind = "chat"

\* Prompt::save: ChatPrompt extends its messages, String pushes data.to_string().
SaveMut(mem, data) ==
    IF mem.kind = "chat"
    THEN [mem EXCEPT !.items = data.items]
    ELSE [mem EXCEPT !.items = to_string(data)]

Save(mem, data) ==
    IF mem.kind = "chat"
    THEN [mem EXCEPT !.items = @ \o data.items]
    ELSE [mem EXCEPT !.items = @ \o to_string(data)]

\* The MutexGuard `locked_memory` lives to the end of the `if let` block, so it
\* is still held when llm.generate is awaited.
GuardAtGenerateMut(locks, m, c) == [locks EXCEPT ![m] = 0]

GuardAtGenerate(locks, m, c) == locks

\* `memory: self.memory.clone()` in Clone for LLMPipeline: Arc::clone, the same allocation.
ArcCloneMut(m, content, free) ==
    IF m = 0 THEN [ref |-> 0, content |-> content]
    ELSE [ref |-> free, content |-> [content EXCEPT ![free] = content[m]]]

ArcClone(m, content, free) == [ref |-> m, content |-> content]

\* Some pipeline holds an Arc of cell m.
Referenced(m, mems) == \E p \in PipelineIds : mems[p] = m

\* The allocation a new Arc takes: the first cell no pipeline holds.
FreeCell(mems) ==
    CHOOSE m \in Cells : ~Referenced(m, mems) /\ \A k \in Cells : k < m => Referenced(k, mems)

\* Dropping the last Arc of a cell frees the memory in it.
DropUnreferenced(cells, mems, empty) ==
    [m \in Cells |-> IF Referenced(m, mems) THEN cells[m] ELSE empty]

\* No execute of a caller is borrowing pipeline p (the builder methods take self by value).
NotBorrowed(p) == \A c \in Callers : exec_pc[c] = "idle" \/ exec_pl[c] # p

\* The execute calls in progress occupy the first free slots: slot c is taken
\* by a new call when every lower slot is in use.
FirstFree(c) == exec_pc[c] = "idle" /\ \A d \in Callers : d < c => exec_pc[d] # "idle"

\* LLMPipeline::new(&client).load_template("name", body)
InitPL ==
    /\ MROff
    /\ EmbOff
    /\ LibOff("none")
    /\ pl_exists = {1}
    /\ \E b \in Bodies :
         pl_templates = [p \in PipelineIds |->
                            [n \in TemplateNames |-> IF p = 1 /\ n = "name" THEN b ELSE NoBody]]
    /\ pl_context = [p \in PipelineIds |-> [k \in ContextKeys |-> ""]]
    /\ pl_memory = [p \in PipelineIds |-> 0]
    /\ mem_content = [m \in Cells |-> EmptyPrompt("none")]
    /\ mem_lock = [m \in Cells |-> 0]
    /\ mem_log = [m \in Cells |-> <<>>]
    /\ exec_pc = [c \in Callers |-> "idle"]
    /\ exec_pl = [c \in Callers |-> 0]
    /\ exec_prompt = [c \in Callers |-> EmptyPrompt("none")]
    /\ llm_arg = [c \in Callers |-> EmptyPrompt("none")]
    /\ exec_ret = "none"
    /\ exec_count = 0
    /\ load_count = 0
    /\ clone_shares = FALSE

\* load_template(self, name, prompt): register_template inserts or replaces the body.
LoadTemplate(p, b) ==
    /\ p \in pl_exists
    /\ NotBorrowed(p)
    /\ load_count < MaxLoads
    /\ load_count' = load_count + 1
    /\ pl_templates' = [pl_templates EXCEPT ![p]["name"] = b]
    /\ UNCHANGED <<pl_exists, pl_context, pl_memory, mem_content, mem_lock, mem_log,
                   exec_pc, exec_pl, exec_prompt, llm_arg, exec_ret, exec_count, clone_shares>>
    /\ UNCHANGED nonPLVars

\* load_memory(self, memory): self.memory = Some(Arc::new(Mutex::new(memory)))
\* with memory::ChatBuffer::new() or memory::Buffer::new().
LoadMemory(p, kind) ==
    LET cell == FreeCell([pl_memory EXCEPT ![p] = 0])
        mems == [pl_memory EXCEPT ![p] = cell]
    IN
    /\ p \in pl_exists
    /\ NotBorrowed(p)
    /\ load_count < MaxLoads
    /\ load_count' = load_count + 1
    /\ pl_memory' = mems
    /\ mem_content' = [DropUnreferenced(mem_content, mems, EmptyPrompt("none"))
                         EXCEPT ![cell] = EmptyPrompt(kind)]
    /\ mem_log' = [DropUnreferenced(mem_log, mems, <<>>) EXCEPT ![cell] = <<>>]
    /\ clone_shares' = FALSE
    /\ UNCHANGED <<pl_exists, pl_templates, pl_context, mem_lock, exec_pc, exec_pl,
                   exec_prompt, llm_arg, exec_ret, exec_count>>
    /\ UNCHANGED nonPLVars

\* load_context(self, context) with a context of the one key: the key is
\* inserted, or, when it is already present, Err is returned and the pipeline
\* value that was moved in is dropped.
LoadContext(p, v) ==
    LET mems == [pl_memory EXCEPT ![p] = 0] IN
    /\ p \in pl_exists
    /\ NotBorrowed(p)
    /\ load_count < MaxLoads
    /\ load_count' = load_count + 1
    /\ IF pl_context[p]["country"] = ""
       THEN /\ pl_context' = [pl_context EXCEPT ![p]["country"] = v]
            /\ UNCHANGED <<pl_exists, pl_templates, pl_memory, mem_content, mem_log,
                           clone_shares>>
       ELSE /\ pl_exists' = pl_exists \ {p}
            /\ pl_templates' = [pl_templates EXCEPT ![p] = [n \in TemplateNames |-> NoBody]]
            /\ pl_context' = [pl_context EXCEPT ![p] = [k \in ContextKeys |-> ""]]
            /\ pl_memory' = mems
            /\ mem_content' = DropUnreferenced(mem_content, mems, EmptyPrompt("none"))
            /\ mem_log' = DropUnreferenced(mem_log, mems, <<>>)
            /\ clone_shares' = FALSE
    /\ UNCHANGED <<mem_lock, exec_pc, exec_pl, exec_prompt, llm_arg, exec_ret, exec_count>>
    /\ UNCHANGED nonPLVars

\* Clone for LLMPipeline: pipeline 2 becomes a clone of pipeline 1.
ClonePipeline ==
    LET r == ArcClone(pl_memory[1], mem_content, FreeCell(pl_memory)) IN
    /\ 1 \in pl_exists
    /\ 2 \notin pl_exists
    /\ pl_exists' = pl_exists \cup {2}
    /\ pl_templates' = [pl_templates EXCEPT ![2] = pl_templates[1]]
    /\ pl_context' = [pl_context EXCEPT ![2] = pl_context[1]]
    /\ pl_memory' = [pl_memory EXCEPT ![2] = r.ref]
    /\ mem_content' = r.content
    /\ clone_shares' = (pl_memory[1] # 0)
    /\ UNCHANGED <<mem_lock, mem_log, exec_pc, exec_pl, exec_prompt, llm_arg, exec_ret,
                   exec_count>>
    /\ UNCHANGED load_count
    /\ UNCHANGED nonPLVars

\* execute(&self, target), up to its first await: render_context(target, ..)?
\* and, without a memory, the call of llm.generate(prompt.clone_prompt()).
ExecRender(c, p, target) ==
    /\ FirstFree(c)
    /\ p \in pl_exists
    /\ exec_count < MaxExecs
    /\ exec_count' = exec_count + 1
    /\ IF pl_templates[p][target] = NoBody
       THEN /\ exec_ret' = "Err render"
            /\ UNCHANGED <<exec_pc, exec_pl, exec_prompt, llm_arg>>
       ELSE /\ exec_pl' = [exec_pl EXCEPT ![c] = p]
            /\ exec_prompt' = [exec_prompt EXCEPT ![c] = Render(pl_templates[p][target], pl_context[p])]
            /\ UNCHANGED exec_ret
            /\ IF pl_memory[p] = 0
               THEN /\ llm_arg' = [llm_arg EXCEPT ![c] = Render(pl_templates[p][target], pl_context[p])]
                    /\ exec_pc' = [exec_pc EXCEPT ![c] = "generating"]
               ELSE /\ exec_pc' = [exec_pc EXCEPT ![c] = "lock"]
                    /\ UNCHANGED llm_arg
    /\ UNCHANGED <<pl_exists, pl_templates, pl_context, pl_memory, mem_content, mem_lock,
                   mem_log, clone_shares>>
    /\ UNCHANGED load_count
    /\ UNCHANGED nonPLVars

\* memory.lock().await
ExecLock(c) ==
    LET m == pl_memory[exec_pl[c]] IN
    /\ exec_pc[c] = "lock"
    /\ mem_lock[m] = 0
    /\ mem_lock' = [mem_lock EXCEPT ![m] = c]
    /\ exec_pc' = [exec_pc EXCEPT ![c] = "locked"]
    /\ UNCHANGED <<pl_exists, pl_templates, pl_context, pl_memory, mem_content,
                   mem_log, exec_pl, exec_prompt, llm_arg, exec_ret, exec_count, clone_shares>>
    /\ UNCHANGED load_count
    /\ UNCHANGED nonPLVars

\* mem.save(prompt); self.llm.generate(mem.clone_prompt()) is called.  A panic
\* in save unwinds the call, drops the guard and ends the caller's task.
ExecSave(c) ==
    LET m == pl_memory[exec_pl[c]] IN
    /\ exec_pc[c] = "locked"
    /\ IF CanSave(mem_content[m], exec_prompt[c])
       THEN /\ mem_content' = [mem_content EXCEPT ![m] = Save(@, exec_prompt[c])]
            /\ mem_log' = [mem_log EXCEPT ![m] = Append(@, <<exec_pl[c], exec_prompt[c]>>)]
            /\ llm_arg' = [llm_arg EXCEPT ![c] = Save(mem_content[m], exec_prompt[c])]
            /\ exec_pc' = [exec_pc EXCEPT ![c] = "generating"]
            /\ mem_lock' = GuardAtGenerate(mem_lock, m, c)
            /\ UNCHANGED exec_ret
            /\ UNCHANGED <<exec_pl, exec_prompt>>
       ELSE /\ exec_pc' = [exec_pc EXCEPT ![c] = "idle"]
            /\ exec_pl' = [exec_pl EXCEPT ![c] = 0]
            /\ exec_prompt' = [exec_prompt EXCEPT ![c] = EmptyPrompt("none")]
            /\ exec_ret' = "panic"
            /\ mem_lock' = [mem_lock EXCEPT ![m] = 0]
            /\ UNCHANGED <<mem_content, mem_log, llm_arg>>
    /\ UNCHANGED <<pl_exists, pl_templates, pl_context, pl_memory, exec_count,
                   clone_shares>>
    /\ UNCHANGED load_count
    /\ UNCHANGED nonPLVars

\* llm.generate(..).await? ends: Ok(PipelineResult), the back-end's error, or a
\* panic of the back-end (OpenAI::generate on a prompt without to_chat); the
\* guard, if any, is dropped in each case.
ExecGenerate(c) ==
    LET m == pl_memory[exec_pl[c]] IN
    /\ exec_pc[c] = "generating"
    /\ \E out \in {"Ok", "Err llm", "panic"} :
          /\ exec_ret' = out
          /\ exec_pc' = [exec_pc EXCEPT ![c] = "idle"]
    /\ exec_pl' = [exec_pl EXCEPT ![c] = 0]
    /\ exec_prompt' = [exec_prompt EXCEPT ![c] = EmptyPrompt("none")]
    /\ llm_arg' = [llm_arg EXCEPT ![c] = EmptyPrompt("none")]
    /\ mem_lock' = IF m # 0 /\ mem_lock[m] = c THEN [mem_lock EXCEPT ![m] = 0] ELSE mem_lock
    /\ UNCHANGED <<pl_exists, pl_templates, pl_context, pl_memory, mem_content,
                   mem_log, exec_count, clone_shares>>
    /\ UNCHANGED load_count
    /\ UNCHANGED nonPLVars

NextPL ==
    \/ \E p \in PipelineIds, b \in Bodies : LoadTemplate(p, b)
    \/ \E p \in PipelineIds, kind \in MemoryKinds : LoadMemory(p, kind)
    \/ \E p \in PipelineIds, v \in ContextValues : LoadContext(p, v)
    \/ ClonePipeline
    \/ \E c \in Callers, p \in PipelineIds, target \in TemplateNames : ExecRender(c, p, target)
    \/ \E c \in Callers : ExecLock(c)
    \/ \E c \in Callers : ExecSave(c)
    \/ \E c \in Callers : ExecGenerate(c)

SpecPL == InitPL /\ [][NextPL]_vars

(***************************************************************************)
(* Properties of the simple pipeline                                       *)
(***************************************************************************)
\* The memory cell caller c is executing on (0: the pipeline has no memory).
CellOf(c) == pl_memory[exec_pl[c]]

\* Caller c is between the append and the return of the back-end's generate.
InSection(c) == exec_pc[c] \in {"locked", "generating"} /\ CellOf(c) # 0

RECURSIVE Appended(_, _)
\* The prompts of a log appended in order into an empty memory of a kind.
Appended(kind, log) ==
    IF Len(log) = 0 THEN <<>>
    ELSE LET data == log[Len(log)][2] IN
         Appended(kind, SubSeq(log, 1, Len(log) - 1))
            \o (IF kind = "chat" THEN data.items ELSE to_string(data))

\* C8: while an execute of a pipeline with memory is between the append of the
\* rendered prompt and the return of the back-end's generate call, it holds the
\* memory's mutex; so of the execute calls that share one memory (callers of one
\* pipeline or of its clones) at most one is in that section and at most one
\* back-end call is in flight.
C8_MemoryLockHeldThroughGenerate ==
    /\ \A c \in Callers : InSection(c) => mem_lock[CellOf(c)] = c
    /\ \A c, d \in Callers :
         (c # d /\ InSection(c) /\ InSection(d)) => CellOf(c) # CellOf(d)

\* A back-end call is in flight on a memory shared by two clones while an
\* execute of the other clone waits for the mutex.
C8_Witness ==
    \E c, d \in Callers :
        /\ exec_pc[c] = "generating"
        /\ exec_pc[d] = "lock"
        /\ exec_pl[c] # exec_pl[d]
        /\ CellOf(c) # 0
        /\ CellOf(c) = CellOf(d)
        /\ mem_lock[CellOf(c)] = c

\* C9: the prompt passed to the back-end by the k-th execute that appends to a
\* memory is the memory content after the append: the rendered prompts of
\* executes 1..k appended in order, the last one being the caller's own; the
\* memory persists across load_template.
C9_BackendSeesMemoryAfterAppend ==
    \A c \in Callers :
        (exec_pc[c] = "generating" /\ CellOf(c) # 0) =>
            LET m == CellOf(c) IN
            /\ Len(mem_log[m]) >= 1
            /\ mem_log[m][Len(mem_log[m])] = <<exec_pl[c], exec_prompt[c]>>
            /\ llm_arg[c].kind = mem_content[m].kind
            /\ llm_arg[c].items = Appended(mem_content[m].kind, mem_log[m])
            /\ llm_arg[c] = mem_content[m]

\* The second execute of one pipeline, after load_template replaced the
\* template, passes both rendered prompts.
C9_Witness ==
    \E c \in Callers :
        /\ exec_pc[c] = "generating"
        /\ CellOf(c) # 0
        /\ Len(mem_log[CellOf(c)]) = 2
        /\ mem_log[CellOf(c)][1][1] = mem_log[CellOf(c)][2][1]
        /\ mem_log[CellOf(c)][1][2] # mem_log[CellOf(c)][2][2]
        /\ Len(llm_arg[c].items) >= 2

\* Both clones exist and no memory was loaded into either since the clone.
ClonesShare == clone_shares /\ PipelineIds \subseteq pl_exists

\* Both clones observe the same memory content.
MemShared ==
    ClonesShare => /\ pl_memory[2] # 0
                   /\ mem_content[pl_memory[1]] = mem_content[pl_memory[2]]

\* A step changes the template registry, and the context, of at most one
\* pipeline, and a clone starts with copies of the original's.
TemplatesAndContextIndependent ==
    /\ pl_templates'[1] = pl_templates[1] \/ pl_templates'[2] = pl_templates[2]
    /\ pl_context'[1] = pl_context[1] \/ pl_context'[2] = pl_context[2]
    /\ (2 \notin pl_exists /\ 2 \in pl_exists') =>
          /\ pl_templates'[2] = pl_templates[1]
          /\ pl_context'[2] = pl_context[1]

\* C10: a clone of a pipeline with memory shares the memory: after any
\* executes on either clone both observe the same memory content, while the
\* template registries and contexts are independent copies.
C10_CloneSharesMemory == []MemShared /\ [][TemplatesAndContextIndependent]_vars

\* Both clones have appended to the shared memory and their templates differ.
C10_Witness ==
    /\ ClonesShare
    /\ pl_memory[1] # 0
    /\ \E i, j \in 1 .. Len(mem_log[pl_memory[1]]) :
          mem_log[pl_memory[1]][i][1] = 1 /\ mem_log[pl_memory[1]][j][1] = 2
    /\ pl_templates[1] # pl_templates[2]
    /\ mem_content[pl_memory[2]].items # <<>>

(***************************************************************************)
(* Part IV.  The pipeline context                                          *)
(***************************************************************************)
\* The keys a Context argument holds.
KeysOf(c) == {k \in CtxKeys : c[k] # Absent}

\* The orders in which `context.as_object().iter()` may visit the keys of a HashMap.
IterOrders(S) ==
    {o \in [1 .. Cardinality(S) -> S] : \A i, j \in 1 .. Cardinality(S) : i # j => o[i] # o[j]}

\* self.context.contains_key(key)
ContainsKeyMut(ctx, key) == FALSE

ContainsKey(ctx, key) == ctx[key] # Absent

RECURSIVE LoadContextLoop(_, _, _, _)
\* The for loop of load_context from the i-th visited key on: inserts each key
\* that is not in the context and returns Err at the first one that is.
LoadContextLoop(ctx, c, order, i) ==
    IF i > Len(order) THEN [context |-> ctx, ok |-> TRUE]
    ELSE IF ~ContainsKey(ctx, order[i])
         THEN LoadContextLoop([ctx EXCEPT ![order[i]] = c[order[i]]], c, order, i + 1)
         ELSE [context |-> ctx, ok |-> FALSE]

\* LLMPipeline::new(&client): an empty context.
InitCtx ==
    /\ MROff
    /\ EmbOff
    /\ PLOff
    /\ LibOff("ctx")
    /\ pipeline_context = EmptyContext
    /\ ctx_alive = TRUE
    /\ ctx_ret = "none"
    /\ ctx_before = EmptyContext
    /\ ctx_call = NoCall
    /\ ctx_calls = 0

\* load_context(self, context): Ok(self) with the keys inserted, or Err, which
\* drops the pipeline that was moved in (with the keys inserted so far).
CtxLoadContext(c) ==
    /\ ctx_alive
    /\ ctx_calls < MaxCtxCalls
    /\ \E order \in IterOrders(KeysOf(c)) :
          LET r == LoadContextLoop(pipeline_context, c, order, 1) IN
          /\ pipeline_context' = r.context
          /\ ctx_alive' = r.ok
          /\ ctx_ret' = IF r.ok THEN "Ok" ELSE "Err"
    /\ ctx_before' = pipeline_context
    /\ ctx_call' = [op |-> "load_context", arg |-> c]
    /\ ctx_calls' = ctx_calls + 1
    /\ UNCHANGED nonCtxVars

\* load_record(self, name, record): inserts record.content.to_string() under
\* name, or returns Err when the name is in the context.
CtxLoadRecord(name, text) ==
    /\ ctx_alive
    /\ ctx_calls < MaxCtxCalls
    /\ IF ~ContainsKey(pipeline_context, name)
       THEN /\ pipeline_context' = [pipeline_context EXCEPT ![name] = text]
            /\ ctx_ret' = "Ok"
            /\ UNCHANGED ctx_alive
       ELSE /\ ctx_ret' = "Err"
            /\ ctx_alive' = FALSE
            /\ UNCHANGED pipeline_context
    /\ ctx_before' = pipeline_context
    /\ ctx_call' = [op |-> "load_record", arg |-> [k \in CtxKeys |-> IF k = name THEN text ELSE Absent]]
    /\ ctx_calls' = ctx_calls + 1
    /\ UNCHANGED nonCtxVars

NextCtx ==
    \/ \E c \in [CtxKeys -> CtxVals \cup {Absent}] : CtxLoadContext(c)
    \/ \E name \in CtxKeys, text \in CtxVals : CtxLoadRecord(name, text)

SpecCtx == InitCtx /\ [][NextCtx]_vars

\* A load call with argument c on context ctx: it returns Ok exactly when no
\* key of c is in ctx, then exactly the keys of c are added; no binding of ctx
\* is changed, whatever it returns.
AppendOnlyStep ==
    ctx_calls' # ctx_calls =>
        LET c == ctx_call'.arg
            duplicate == \E k \in CtxKeys : c[k] # Absent /\ pipeline_context[k] # Absent
        IN
        /\ ctx_ret' \in {"Ok", "Err"}
        /\ (ctx_ret' = "Ok") <=> ~duplicate
        /\ ctx_ret' = "Ok" =>
              pipeline_context' = [k \in CtxKeys |-> IF pipeline_context[k] # Absent
                                                     THEN pipeline_context[k] ELSE c[k]]
        /\ \A k \in CtxKeys :
              pipeline_context[k] # Absent => pipeline_context'[k] = pipeline_context[k]

\* C11: the pipeline context is append-only: load_context(c) succeeds iff no
\* key of c is already in the context and load_record(name, r) iff name is not;
\* on success exactly the new keys are added, and on a duplicate key an error is
\* returned; no existing binding is ever overwritten.
C11_ContextAppendOnly == [][AppendOnlyStep]_vars

\* load_context returned Err after it had inserted a new key, on a key bound
\* to another value than the argument's.
C11_Witness ==
    /\ ctx_ret = "Err"
    /\ ctx_call.op = "load_context"
    /\ \E k \in CtxKeys : ctx_before[k] = Absent /\ pipeline_context[k] # Absent
    /\ \E k \in CtxKeys : /\ ctx_before[k] # Absent
                          /\ ctx_call.arg[k] # Absent
                          /\ ctx_call.arg[k] # ctx_before[k]
                          /\ pipeline_context[k] = ctx_before[k]

(***************************************************************************)
(* Part V.  Template registry: add_to_template and rendering               *)
(***************************************************************************)
\* template.contains(tag)
Contains(body, tag) == \E i \in 1 .. Len(body) : body[i] = tag

RECURSIVE Replace(_, _)
\* template.replace(tag, ""): every occurrence of the tag is removed.
Replace(body, tag) ==
    IF Len(body) = 0 THEN <<>>
    ELSE (IF Head(body) = tag THEN <<>> ELSE <<Head(body)>>) \o Replace(Tail(body), tag)

\* TemplateEngine::add_to_template on a registered body.
add_to_template(body, new_template) ==
    IF Contains(body, ChatOpen) /\ Contains(body, ChatClose)
    THEN <<ChatOpen>> \o Replace(Replace(body, ChatOpen), ChatClose) \o new_template \o <<ChatClose>>
    ELSE body \o new_template

RECURSIVE RenderTokens(_)
\* Handlebars output of a body: ChatHelper writes "[" content "]" (the content's
\* last comma removed), RoleHelper writes the message object and a comma, any
\* other text is written as it is.
RenderTokens(body) ==
    IF Len(body) = 0 THEN <<>>
    ELSE (IF Head(body) = ChatOpen THEN <<<<"[">>>>
          ELSE IF Head(body) = ChatClose THEN <<<<"]">>>>
          ELSE IF Head(body)[1] = "role" THEN <<<<"message", Head(body)[2], Head(body)[3]>>>>
          ELSE <<<<"raw", Head(body)[2], Head(body)[3]>>>>) \o RenderTokens(Tail(body))

\* serde_json::from_str::<ChatPrompt>(&rendered) succeeds: one array whose
\* elements are all message objects.
ParsesAsChat(out) ==
    /\ Len(out) >= 2
    /\ out[1] = <<"[">>
    /\ out[Len(out)] = <<"]">>
    /\ \A i \in 2 .. Len(out) - 1 : out[i][1] = "message"

\* TemplateEngine::render: the ChatPrompt when the output parses as one, else the string.
render(body) ==
    LET out == RenderTokens(body) IN
    IF ParsesAsChat(out)
    THEN [kind |-> "chat", items |-> SubSeq(out, 2, Len(out) - 1)]
    ELSE [kind |-> "text", items |-> out]

\* The role blocks of a template text, in order.
RoleBlocksOf(body) == SelectSeq(body, LAMBDA t : t[1] = "role")

\* The messages a sequence of role blocks renders to.
MessagesOf(body) ==
    [i \in 1 .. Len(RoleBlocksOf(body)) |->
        <<"message", RoleBlocksOf(body)[i][2], RoleBlocksOf(body)[i][3]>>]

\* Suffixes: one or two role blocks, bare or inside a chat envelope of their own.
Suffixes ==
    LET bare == {<<b>> : b \in RoleBlocks} \cup {<<a, b>> : a, b \in {<<"role", "user", "Hi">>, <<"role", "user", "Paris">>}}
    IN bare \cup {<<ChatOpen>> \o s \o <<ChatClose>> : s \in {<<b>> : b \in RoleBlocks}}

\* register_template(name, "{{#chat}}...{{/chat}}") with one or two role blocks.
InitTpl ==
    /\ MROff
    /\ EmbOff
    /\ PLOff
    /\ LibOff("tpl")
    /\ \E s \in {<<b>> : b \in RoleBlocks} \cup {<<<<"role", "system", "Be brief">>, <<"role", "user", "Hi">>>>} :
          /\ tpl_body = <<ChatOpen>> \o s \o <<ChatClose>>
          /\ tpl_messages = MessagesOf(s)
    /\ tpl_adds = 0

\* add_to_template(name, suffix)
AddToTemplate(suffix) ==
    /\ tpl_adds < MaxAdds
    /\ tpl_body' = add_to_template(tpl_body, suffix)
    /\ tpl_messages' = tpl_messages \o MessagesOf(suffix)
    /\ tpl_adds' = tpl_adds + 1
    /\ UNCHANGED nonTplVars

NextTpl == \E suffix \in Suffixes : AddToTemplate(suffix)

SpecTpl == InitTpl /\ [][NextTpl]_vars

\* Number of occurrences of a tag in a body.
Occurrences(body, tag) == Cardinality({i \in 1 .. Len(body) : body[i] = tag})

\* C12: after any number of add_to_template calls on a body that begins with
\* {{#chat}} and ends with {{/chat}}, the stored body begins with {{#chat}},
\* ends with {{/chat}}, contains exactly one chat envelope, and renders to the
\* original messages followed by the suffixes' messages.
C12_AddKeepsOneEnvelope ==
    /\ tpl_body[1] = ChatOpen
    /\ tpl_body[Len(tpl_body)] = ChatClose
    /\ Occurrences(tpl_body, ChatOpen) = 1
    /\ Occurrences(tpl_body, ChatClose) = 1
    /\ render(tpl_body) = [kind |-> "chat", items |-> tpl_messages]

(***************************************************************************)
(* Part VI.  Prompt::save                                                  *)
(***************************************************************************)
\* A String and a ChatPrompt of one item each.
OneItemPrompts ==
    {[kind |-> "text", items |-> <<t>>] : t \in TextItems}
        \cup {[kind |-> "chat", items |-> <<m>>] : m \in ChatItems}

\* String::new() / ChatPrompt(vec![]) or a prompt of one item.
InitSave ==
    /\ MROff
    /\ EmbOff
    /\ PLOff
    /\ LibOff("save")
    /\ save_target \in OneItemPrompts \cup {EmptyPrompt("text"), EmptyPrompt("chat")}
    /\ save_data = EmptyPrompt("none")
    /\ save_before = EmptyPrompt("none")
    /\ save_outcome = "none"
    /\ save_count = 0

\* target.save(data): returns () after the append, or panics in
\* data.to_chat().unwrap() (a later call is made by a caller that caught it).
PromptSave(data) ==
    /\ save_count < MaxSaves
    /\ IF CanSave(save_target, data)
       THEN /\ save_target' = Save(save_target, data)
            /\ save_outcome' = "unit"
       ELSE /\ save_outcome' = "panic"
            /\ UNCHANGED save_target
    /\ save_data' = data
    /\ save_before' = save_target
    /\ save_count' = save_count + 1
    /\ UNCHANGED nonSaveVars

NextSave == \E data \in OneItemPrompts : PromptSave(data)

SpecSave == InitSave /\ [][NextSave]_vars

\* C13: save preserves the variant: Text into Text gives the concatenated Text
\* and Chat into Chat the extended message sequence; a prompt of the other
\* variant is refused with an IncompatiblePromptKind error value and the target
\* is left unchanged.
C13_SavePreservesVariant ==
    save_count > 0 =>
        IF save_before.kind = save_data.kind
        THEN /\ save_outcome = "unit"
             /\ save_target = [kind |-> save_before.kind,
                               items |-> save_before.items \o save_data.items]
        ELSE /\ save_outcome = "IncompatiblePromptKind"
             /\ save_target = save_before

(***************************************************************************)
(* Part VII.  OpenAI::generate                                             *)
(***************************************************************************)
\* Prompt::to_chat: Ok(self.clone()) for a ChatPrompt; a String has the trait's
\* default, unimplemented!(), which panics.
to_chat(prompt) == IF prompt.kind = "chat" THEN "Ok" ELSE "panic"

\* The prompts a template renders to: a String, or a ChatPrompt of one or two messages.
GenPrompts ==
    OneItemPrompts \cup {[kind |-> "chat", items |-> <<a, b>>] : a, b \in ChatItems}

InitGen ==
    /\ MROff
    /\ EmbOff
    /\ PLOff
    /\ LibOff("gen")
    /\ gen_prompt = EmptyPrompt("none")
    /\ gen_pc = "idle"
    /\ gen_ret = "none"
    /\ gen_exec_ret = "none"
    /\ gen_sent = 0
    /\ gen_sent_before = 0
    /\ gen_calls = 0

\* generate(prompt) up to its await: prompt.to_chat()?, generate_request(..)?
\* and the request handed to client.execute.
GenerateStart(prompt, built) ==
    /\ gen_pc = "idle"
    /\ gen_calls < MaxGenerates
    /\ gen_calls' = gen_calls + 1
    /\ gen_prompt' = prompt
    /\ gen_sent_before' = gen_sent
    /\ IF to_chat(prompt) = "panic"
       THEN /\ gen_ret' = "panic"
            /\ gen_exec_ret' = "panic"
            /\ UNCHANGED <<gen_pc, gen_sent>>
       ELSE IF ~built
       THEN /\ gen_ret' = "Err"
            /\ gen_exec_ret' = "Err"
            /\ UNCHANGED <<gen_pc, gen_sent>>
       ELSE /\ gen_ret' = "none"
            /\ gen_exec_ret' = "none"
            /\ gen_pc' = "sending"
            /\ gen_sent' = gen_sent + 1
    /\ UNCHANGED nonGenVars

\* client.execute(req).await? and the handling of the response.
GenerateRespond(http) ==
    /\ gen_pc = "sending"
    /\ gen_pc' = "idle"
    /\ gen_ret' = IF http = "success" THEN "Ok" ELSE "Err"
    /\ gen_exec_ret' = IF http = "success" THEN "Ok" ELSE "Err"
    /\ UNCHANGED <<gen_prompt, gen_sent, gen_sent_before, gen_calls>>
    /\ UNCHANGED nonGenVars

NextGen ==
    \/ \E prompt \in GenPrompts, built \in BOOLEAN : GenerateStart(prompt, built)
    \/ \E http \in HttpOutcomes : GenerateRespond(http)

SpecGen == InitGen /\ [][NextGen]_vars

\* C14: generate on a Text prompt returns an error value (WrongPromptShape):
\* no request is sent, the call does not panic, and the pipeline execute that
\* rendered the Text returns Err.
C14_TextPromptIsAnError ==
    (gen_calls > 0 /\ gen_pc = "idle" /\ gen_prompt.kind = "text") =>
        /\ gen_ret = "Err"
        /\ gen_exec_ret = "Err"
        /\ gen_sent = gen_sent_before

(***************************************************************************)
(* Part VIII.  Sequential pipeline                                         *)
(***************************************************************************)
\* format!("{{{{#user}}}}{}{{{{/user}}}}", response)
UserBlockMut(response) == <<"role", "assistant", response>>

UserBlock(response) == <<"role", "user", response>>

\* templates.get_mut(name) is Some: add_to_template does nothing otherwise.
Registered(body) == body # Unregistered

\* template_engine().add_to_template(target, &format!(..)) under the write lock.
InjectMut(body, response) ==
    <<ChatOpen, UserBlock(response)>> \o Replace(Replace(body, ChatOpen), ChatClose) \o <<ChatClose>>

Inject(body, response) == add_to_template(body, <<UserBlock(response)>>)

\* How execute of an inner LLMPipeline<OpenAI> can end on a target template:
\* the render error for an unregistered name, the panic of to_chat for a body
\* that renders to a String, and otherwise the back-end's text or its error.
StepOutcomes(body) ==
    IF ~Registered(body) THEN {<<"Err", "">>}
    ELSE IF to_chat(render(body)) = "panic" THEN {<<"panic", "">>}
    ELSE {<<"Ok", t>> : t \in ResponseTexts} \cup {<<"Err", "">>}

\* SequentialPipeline::new().link(..)...: zero to MaxSteps inner pipelines.
InitSeq ==
    /\ MROff
    /\ EmbOff
    /\ PLOff
    /\ LibOff("seq")
    /\ \E n \in 0 .. MaxSteps : seq_templates \in [1 .. n -> {ChatBody, TextBody, Unregistered}]
    /\ seq_pc = "idle"
    /\ seq_k = 0
    /\ seq_response = ""
    /\ seq_result = <<0, "">>
    /\ seq_ret = <<"none", 0, "">>
    /\ seq_log = <<>>
    /\ seq_touched = {}
    /\ seq_runs = 0
    /\ seq_clean = TRUE
    /\ seq_returned = [k \in 1 .. Len(seq_templates) |-> <<>>]

\* execute(target) is called: the locals are initialised; with no inner
\* pipeline the loop is skipped and Ok(result) returned.
SeqStart ==
    /\ seq_pc = "idle"
    /\ seq_runs < MaxRuns
    /\ seq_runs' = seq_runs + 1
    /\ seq_response' = ""
    /\ seq_result' = <<0, "">>
    /\ seq_log' = <<>>
    /\ seq_touched' = {}
    /\ IF Len(seq_templates) = 0
       THEN /\ seq_ret' = <<"Ok", 0, "">>
            /\ UNCHANGED <<seq_pc, seq_k>>
       ELSE /\ seq_ret' = <<"none", 0, "">>
            /\ seq_pc' = "step"
            /\ seq_k' = 1
    /\ UNCHANGED <<seq_templates, seq_clean, seq_returned>>
    /\ UNCHANGED nonSeqVars

\* One iteration up to the await of the inner execute: if response is not
\* empty, add_to_template under the write lock; then execute under the read lock.
SeqStep ==
    LET before == seq_templates[seq_k]
        appends == seq_response # "" /\ Registered(before)
        body == IF appends THEN Inject(before, seq_response) ELSE before
    IN
    /\ seq_pc = "step"
    /\ seq_templates' = [seq_templates EXCEPT ![seq_k] = body]
    /\ seq_touched' = IF appends THEN seq_touched \cup {seq_k} ELSE seq_touched
    /\ seq_log' = Append(seq_log, [k |-> seq_k, before |-> before, body |-> body,
                                   prev |-> seq_response, out |-> <<"pending", "">>])
    /\ seq_pc' = "awaiting"
    /\ UNCHANGED <<seq_k, seq_response, seq_result, seq_ret, seq_runs, seq_clean, seq_returned>>
    /\ UNCHANGED nonSeqVars

\* The inner execute ends: `?` returns its error, a panic unwinds, and a result
\* becomes `result` and its content `response`; after the last one Ok(result).
SeqReturn(out) ==
    /\ seq_pc = "awaiting"
    /\ out \in StepOutcomes(seq_templates[seq_k])
    /\ seq_log' = [seq_log EXCEPT ![Len(seq_log)].out = out]
    /\ IF out[1] = "Ok"
       THEN /\ seq_result' = <<seq_k, out[2]>>
            /\ seq_response' = out[2]
            /\ IF seq_k = Len(seq_templates)
               THEN /\ seq_ret' = <<"Ok", seq_k, out[2]>>
                    /\ seq_pc' = "idle"
                    /\ UNCHANGED seq_k
               ELSE /\ seq_k' = seq_k + 1
                    /\ seq_pc' = "step"
                    /\ UNCHANGED seq_ret
       ELSE /\ seq_ret' = <<out[1], seq_k, "">>
            /\ seq_pc' = "idle"
            /\ UNCHANGED <<seq_k, seq_response, seq_result>>
    /\ IF seq_clean /\ out[1] = "Ok" /\ out[2] # ""
       THEN /\ seq_returned' = [seq_returned EXCEPT ![seq_k] = Append(@, out[2])]
            /\ UNCHANGED seq_clean
       ELSE /\ seq_clean' = FALSE
            /\ seq_returned' = [k \in 1 .. Len(seq_templates) |-> <<>>]
    /\ UNCHANGED <<seq_templates, seq_touched, seq_runs>>
    /\ UNCHANGED nonSeqVars

NextSeq ==
    \/ SeqStart
    \/ SeqStep
    \/ \E out \in {<<"Ok", t>> : t \in ResponseTexts} \cup {<<"Err", "">>, <<"panic", "">>} :
          SeqReturn(out)

SpecSeq == InitSeq /\ [][NextSeq]_vars

\* A body that begins with {{#chat}} and ends with {{/chat}}.
Enveloped(body) == Len(body) >= 2 /\ body[1] = ChatOpen /\ body[Len(body)] = ChatClose

\* C15: step k+1 is executed only after step k has returned; the template it
\* is executed on is the one it had with {{#user}}<text of step k>{{/user}}
\* appended inside the chat envelope, or is unchanged if that text is empty.
C15_StepSeesPreviousResponse ==
    \A i \in 1 .. Len(seq_log) :
        /\ seq_log[i].k = i
        /\ i > 1 =>
              LET e == seq_log[i]
                  text == seq_log[i - 1].out[2]
              IN
              /\ seq_log[i - 1].out[1] = "Ok"
              /\ e.prev = text
              /\ text = "" => e.body = e.before
              /\ (text # "" /\ Enveloped(e.before)) =>
                    /\ Enveloped(e.body)
                    /\ Len(e.body) = Len(e.before) + 1
                    /\ e.body[Len(e.body) - 1] = <<"role", "user", text>>
                    /\ SubSeq(e.body, 1, Len(e.body) - 2) = SubSeq(e.before, 1, Len(e.before) - 1)

\* In a second run, step 2 executes on a template holding the text of step 1
\* of both runs inside one envelope, and step 3 after an empty text.
C15_Witness ==
    /\ seq_runs = 2
    /\ Len(seq_log) = 3
    /\ seq_log[2].prev = "Paris"
    /\ Len(seq_log[2].body) = 5
    /\ seq_log[2].out = <<"Ok", "">>
    /\ seq_log[3].body = seq_log[3].before

\* The step of the current run that did not succeed, or 0.
FailedStep ==
    IF \E i \in 1 .. Len(seq_log) : seq_log[i].out[1] \in {"Err", "panic"}
    THEN CHOOSE i \in 1 .. Len(seq_log) : seq_log[i].out[1] \in {"Err", "panic"}
    ELSE 0

\* C16: execute returns Ok with the last step's result only if every step
\* succeeded; if step k fails it returns that error, steps k+1.. are not
\* executed and their templates are not modified.
C16_ErrorStopsTheRun ==
    (seq_pc = "idle" /\ seq_runs > 0) =>
        /\ seq_ret[1] = "Ok" =>
              /\ Len(seq_log) = Len(seq_templates)
              /\ \A i \in 1 .. Len(seq_log) : seq_log[i].out[1] = "Ok"
              /\ seq_ret[2] = Len(seq_templates)
              /\ Len(seq_log) > 0 => seq_ret[3] = seq_log[Len(seq_log)].out[2]
        /\ FailedStep # 0 =>
              /\ seq_ret = <<"Err", FailedStep, "">>
              /\ Len(seq_log) = FailedStep
              /\ \A j \in seq_touched : j <= FailedStep

\* The steps of execute leave the first inner pipeline's template as it is.
FirstTemplateKept ==
    Len(seq_templates) >= 1 => seq_templates'[1] = seq_templates[1]

\* After seq_runs runs in which every step returned a non-empty text, the
\* template of inner pipeline k >= 2 is its original body with one user block
\* per run, holding the text step k-1 returned in that run, in run order and
\* before the closing tag of the one envelope.
InjectionsOfAllRuns ==
    (seq_clean /\ seq_pc = "idle" /\ seq_runs >= 1) =>
        \A k \in 1 .. Len(seq_templates) :
            /\ Len(seq_returned[k]) = seq_runs
            /\ k = 1 => seq_templates[k] = ChatBody
            /\ k >= 2 =>
                  seq_templates[k] =
                      SubSeq(ChatBody, 1, Len(ChatBody) - 1)
                      \o [r \in 1 .. seq_runs |-> <<"role", "user", seq_returned[k - 1][r]>>]
                      \o <<ChatClose>>

VectorsOf(c, n) == [i \in 1 .. n |-> <<"vector", c, i>>]

\* The m payloads given to the c-th call; the one at position bad (if any)
\* does not serialize.
PayloadsOf(c, m, bad) ==
    [i \in 1 .. m |-> IF i = bad THEN <<"unserializable", c, i>> ELSE <<"doc", c, i>>]

\* vectors.into_iter().zip(payloads.into_iter()).enumerate(): zip stops at
\* the end of the shorter list.
ZipLen(vectors, payloads) == Min(Len(vectors), Len(payloads))

\* payload.to_payload(): Err when serde_json::to_value fails.
to_payload(payload) ==
    IF payload[1] = "unserializable" THEN <<"Err", payload>> ELSE <<"Ok", payload>>

\* The collected points_result: the points with ids 0.., or Err at the first
\* payload that does not convert.
PointsResult(vectors, payloads) ==
    LET n == ZipLen(vectors, payloads) IN
    IF \E i \in 1 .. n : to_payload(payloads[i])[1] = "Err"
    THEN [ok |-> FALSE, points |-> <<>>]
    ELSE [ok |-> TRUE,
          points |-> [i \in 1 .. n |-> [id |-> i - 1, vector |-> vectors[i],
                                        payload |-> to_payload(payloads[i])[2]]]]

\* upsert_points_blocking: each point replaces the one with its id.
Upsert(points, new) ==
    [id \in PointIds |->
        IF \E i \in 1 .. Len(new) : new[i].id = id
        THEN LET i == CHOOSE i \in 1 .. Len(new) : new[i].id = id
             IN <<new[i].vector, new[i].payload>>
        ELSE points[id]]

\* Qdrant::new and create_collection: an empty collection.
InitIns ==
    /\ MROff
    /\ EmbOff
    /\ PLOff
    /\ LibOff("ins")
    /\ qd_points = [id \in PointIds |-> NoPoint]
    /\ qd_ret = "none"
    /\ qd_vectors = <<>>
    /\ qd_payloads = <<>>
    /\ qd_before = [id \in PointIds |-> NoPoint]
    /\ qd_upserts = 0
    /\ qd_inserts = 0

\* insert_many(collection_name, vectors, payloads); the upsert request itself
\* may fail in the client.
InsertMany(vectors, payloads, upserted) ==
    LET r == PointsResult(vectors, payloads) IN
    /\ qd_inserts < MaxInserts
    /\ qd_inserts' = qd_inserts + 1
    /\ qd_vectors' = vectors
    /\ qd_payloads' = payloads
    /\ qd_before' = qd_points
    /\ IF ~r.ok
       THEN /\ qd_ret' = "Err payload"
            /\ UNCHANGED <<qd_points, qd_upserts>>
       ELSE /\ qd_upserts' = qd_upserts + 1
            /\ IF upserted
               THEN /\ qd_points' = Upsert(qd_points, r.points)
                    /\ qd_ret' = "Ok"
               ELSE /\ qd_ret' = "Err client"
                    /\ UNCHANGED qd_points
    /\ UNCHANGED nonInsVars

NextIns ==
    \E n \in 0 .. MaxPoints, m \in 0 .. MaxPoints, bad \in 0 .. MaxPoints, upserted \in BOOLEAN :
        /\ bad <= m
        /\ InsertMany(VectorsOf(qd_inserts + 1, n), PayloadsOf(qd_inserts + 1, m, bad), upserted)

SpecIns == InitIns /\ [][NextIns]_vars

\* C17: insert_many with lists of different lengths fails with ArityMismatch
\* and upserts no point; with equal lengths n (payloads that convert, a request
\* that succeeds) it upserts exactly the n points with ids 0..n-1.
C17_ArityChecked ==
    qd_inserts > 0 =>
        IF Len(qd_vectors) # Len(qd_payloads)
        THEN /\ qd_ret \notin {"Ok", "none"}
             /\ qd_points = qd_before
        ELSE qd_ret = "Ok" =>
                \A id \in PointIds :
                    qd_points[id] = IF id < Len(qd_vectors)
                                    THEN <<qd_vectors[id + 1], qd_payloads[id + 1]>>
                                    ELSE qd_before[id]

(***************************************************************************)
(* Part X.  Qdrant::search and match values                                *)
(***************************************************************************)
\* convert_to_match_value: the MatchValue of a bool, an integer or a string
\* (From<bool>, From<i64>, From<String>), a panic for every other kind.
convert_to_match_valueMut(kind) ==
    IF kind = "BoolValue" THEN <<"Boolean", kind>>
    ELSE IF kind \in {"IntegerValue", "DoubleValue"} THEN <<"Integer", kind>>
    ELSE IF kind = "StringValue" THEN <<"Keyword", kind>>
    ELSE <<"panic", kind>>

convert_to_match_value(kind) ==
    IF kind = "BoolValue" THEN <<"Boolean", kind>>
    ELSE IF kind = "IntegerValue" THEN <<"Integer", kind>>
    ELSE IF kind = "StringValue" THEN <<"Keyword", kind>>
    ELSE <<"panic", kind>>

\* Filter::all(cond.into_iter().map(|c| c.to_qdrant_condition())): the
\* conditions are converted in order when the filter is built.
FilterAll(conds) == [i \in 1 .. Len(conds) |-> convert_to_match_value(conds[i])]

\* Some conversion panicked.
Panicked(filter) == \E i \in 1 .. Len(filter) : filter[i][1] = "panic"

InitSrch ==
    /\ MROff
    /\ EmbOff
    /\ PLOff
    /\ LibOff("srch")
    /\ srch_conditions = <<>>
    /\ srch_filter = NoFilter
    /\ srch_ret = "none"
    /\ srch_requests = 0
    /\ srch_requests_before = 0
    /\ srch_calls = 0

\* search(collection_name, vector, limit, Some(conditions)): the filter is
\* built first; search_points is then called and may fail.  srch_filter is
\* the filter of the request this call sent, NoFilter when it sent none.
Search(conds, found) ==
    /\ srch_calls < MaxSearches
    /\ srch_calls' = srch_calls + 1
    /\ srch_conditions' = conds
    /\ srch_requests_before' = srch_requests
    /\ IF Panicked(FilterAll(conds))
       THEN /\ srch_ret' = "panic"
            /\ srch_filter' = NoFilter
            /\ UNCHANGED srch_requests
       ELSE /\ srch_filter' = FilterAll(conds)
            /\ srch_requests' = srch_requests + 1
            /\ srch_ret' = IF found THEN "Ok" ELSE "Err"
    /\ UNCHANGED nonSrchVars

NextSrch ==
    \E conds \in UNION {[1 .. n -> ValueKinds] : n \in 0 .. MaxConditions}, found \in BOOLEAN :
        Search(conds, found)

SpecSrch == InitSrch /\ [][NextSrch]_vars

\* The kinds a match value exists for.
Supported(kind) == kind \in {"BoolValue", "IntegerValue", "StringValue"}

\* C18: a match value converts exactly when it is a boolean, an integer or a
\* string; any other value fails and is never coerced into a match, and a
\* search with such a value in its conditions sends no search request.
C18_OnlySupportedValuesMatch ==
    srch_calls > 0 =>
        IF \A i \in 1 .. Len(srch_conditions) : Supported(srch_conditions[i])
        THEN /\ srch_ret \in {"Ok", "Err"}
             /\ srch_requests = srch_requests_before + 1
             /\ Len(srch_filter) = Len(srch_conditions)
             /\ \A i \in 1 .. Len(srch_conditions) :
                   /\ srch_filter[i][2] = srch_conditions[i]
                   /\ srch_filter[i][1] =
                         (CASE srch_conditions[i] = "BoolValue" -> "Boolean"
                            [] srch_conditions[i] = "IntegerValue" -> "Integer"
                            [] srch_conditions[i] = "StringValue" -> "Keyword")
        ELSE /\ srch_ret = "panic"
             /\ srch_requests = srch_requests_before
             /\ srch_filter = NoFilter

\* A search with a supported and a double value was refused after one that was sent.
C18_Witness ==
    /\ srch_calls = 2
    /\ srch_ret = "panic"
    /\ srch_requests = 1
    /\ Len(srch_conditions) = 2
    /\ srch_conditions[1] = "StringValue"
    /\ srch_conditions[2] = "DoubleValue"
    /\ srch_filter = NoFilter

(***************************************************************************)
(* Part XI.  Escaping of role-block content                                *)
(***************************************************************************)
\* The pieces of JSON text the role helper writes around the content.
RoleOpen == "{\"role\": \""

ContentOpen == "\", \"content\": \""

ObjectClose == "\"}"

RECURSIVE Flatten(_)
\* collect::<String>(): the pieces one after the other.
Flatten(pieces) == IF pieces = <<>> THEN <<>> ELSE Head(pieces) \o Flatten(Tail(pieces))

RECURSIVE TrimStart(_)
TrimStart(s) == IF s # <<>> /\ Head(s) \in Whitespace THEN TrimStart(Tail(s)) ELSE s

RECURSIVE TrimEnd(_)
TrimEnd(s) ==
    IF s # <<>> /\ s[Len(s)] \in Whitespace THEN TrimEnd(SubSeq(s, 1, Len(s) - 1)) ELSE s

\* str::trim
trim(s) == TrimEnd(TrimStart(s))

\* The filter of clean_string: c > '\u{1F}'.
AboveControl(c) == c \notin Control

\* The match of clean_string, one character to its escape.
EscapeChar(c) ==
    CASE c = "\"" -> <<"\\", "\"">>
      [] c = "\\" -> <<"\\", "\\">>
      [] c = "/" -> <<"\\", "/">>
      [] c = "\n" -> <<"\\", "n">>
      [] c = "{" -> <<"\\", "u", "0", "0", "7", "B">>
      [] c = "}" -> <<"\\", "u", "0", "0", "7", "D">>
      [] c = "[" -> <<"\\", "u", "0", "0", "5", "B">>
      [] c = "]" -> <<"\\", "u", "0", "0", "5", "D">>
      [] c = "," -> <<"\\", "u", "0", "0", "2", "C">>
      [] c = ":" -> <<"\\", "u", "0", "0", "3", "A">>
      [] c = "&" -> <<"&", "a", "m", "p", ";">>
      [] OTHER -> <<c>>

clean_stringMut(content) ==
    Flatten([i \in 1 .. Len(SelectSeq(content, AboveControl)) |->
                IF SelectSeq(content, AboveControl)[i] = "\\"
                THEN <<"\\">>
                ELSE EscapeChar(SelectSeq(content, AboveControl)[i])])

clean_string(content) ==
    Flatten([i \in 1 .. Len(SelectSeq(content, AboveControl)) |->
                EscapeChar(SelectSeq(content, AboveControl)[i])])

\* RoleHelper::call: {"role": "<role>", "content": "<clean_string(content.trim())>"},
RoleHelperCall(role, content) ==
    <<RoleOpen, role, ContentOpen>> \o clean_string(trim(content)) \o <<ObjectClose, ",">>

RECURSIVE remove_last_comma(_)
\* content.trim().trim_end_matches(',')
remove_last_comma(text) ==
    IF text # <<>> /\ text[Len(text)] = ","
    THEN remove_last_comma(SubSeq(text, 1, Len(text) - 1))
    ELSE text

\* ChatHelper::call: [<inner without its last comma>]
ChatHelperCall(inner) == <<"[">> \o remove_last_comma(inner) \o <<"]">>

HexDigits == {"0", "1", "2", "3", "4", "5", "6", "7", "8", "9", "A", "B", "C", "D", "E", "F"}

\* The character of a \uXXXX escape; OtherChar stands for the code points
\* outside the characters of the model.
OtherChar == "other"

Unicode(hex) ==
    CASE hex = <<"0", "0", "7", "B">> -> "{"
      [] hex = <<"0", "0", "7", "D">> -> "}"
      [] hex = <<"0", "0", "5", "B">> -> "["
      [] hex = <<"0", "0", "5", "D">> -> "]"
      [] hex = <<"0", "0", "2", "C">> -> ","
      [] hex = <<"0", "0", "3", "A">> -> ":"
      [] OTHER -> OtherChar

RECURSIVE ParseString(_, _)
\* serde_json reading a string literal after its opening quote: <<"Ok",
\* decoded, rest>> when it reaches the quote that closes the object, "Err"
\* on an unknown escape, a raw control character, a string that does not end,
\* or a raw quote inside (the text after it does not continue the object).
ParseString(text, acc) ==
    IF text = <<>> THEN <<"Err", <<>>, <<>>>>
    ELSE IF Head(text) = ObjectClose THEN <<"Ok", acc, Tail(text)>>
    ELSE IF Head(text) = "\"" \/ Head(text) \in Control THEN <<"Err", <<>>, <<>>>>
    ELSE IF Head(text) = "\\"
         THEN IF Len(text) < 2 THEN <<"Err", <<>>, <<>>>>
              ELSE IF text[2] \in {"\"", "\\", "/"}
                   THEN ParseString(SubSeq(text, 3, Len(text)), Append(acc, text[2]))
              ELSE IF text[2] = "n"
                   THEN ParseString(SubSeq(text, 3, Len(text)), Append(acc, "\n"))
              ELSE IF /\ text[2] = "u"
                      /\ Len(text) >= 6
                      /\ \A i \in 3 .. 6 : text[i] \in HexDigits
                   THEN ParseString(SubSeq(text, 7, Len(text)),
                                    Append(acc, Unicode(SubSeq(text, 3, 6))))
              ELSE <<"Err", <<>>, <<>>>>
    ELSE ParseString(Tail(text), Append(acc, Head(text)))

\* serde_json::from_str::<Vec<Message>> of a rendered chat of one message:
\* <<"Ok", role, content>> or <<"Err", "", <<>>>>.
from_str(rendered) ==
    IF /\ Len(rendered) >= 5
       /\ rendered[1] = "["
       /\ rendered[2] = RoleOpen
       /\ rendered[3] \in Roles
       /\ rendered[4] = ContentOpen
       /\ ParseString(SubSeq(rendered, 5, Len(rendered)), <<>>)[1] = "Ok"
       /\ ParseString(SubSeq(rendered, 5, Len(rendered)), <<>>)[3] = <<"]">>
    THEN <<"Ok", rendered[3], ParseString(SubSeq(rendered, 5, Len(rendered)), <<>>)[2]>>
    ELSE <<"Err", "", <<>>>>

Contents == UNION {[1 .. n -> Chars] : n \in 0 .. MaxContentLen}

InitEsc ==
    /\ MROff
    /\ EmbOff
    /\ PLOff
    /\ LibOff("esc")
    /\ esc_content \in Contents
    /\ esc_role = "none"
    /\ esc_rendered = <<>>
    /\ esc_parsed = <<"none", "", <<>>>>
    /\ esc_pc = "start"

\* Rendering {{#chat}}{{#role}}content{{/role}}{{/chat}}.
EscRender(role) ==
    /\ esc_pc = "start"
    /\ esc_role' = role
    /\ esc_rendered' = ChatHelperCall(RoleHelperCall(role, esc_content))
    /\ esc_pc' = "rendered"
    /\ UNCHANGED <<esc_content, esc_parsed>>
    /\ UNCHANGED nonEscVars

\* Parsing the rendered chat.
EscParse ==
    /\ esc_pc = "rendered"
    /\ esc_parsed' = from_str(esc_rendered)
    /\ esc_pc' = "parsed"
    /\ UNCHANGED <<esc_content, esc_role, esc_rendered>>
    /\ UNCHANGED nonEscVars

NextEsc ==
    \/ \E role \in Roles : EscRender(role)
    \/ EscParse

SpecEsc == InitEsc /\ [][NextEsc]_vars

\* C19: a content string of printable characters other than '&' comes back
\* from JSON-parsing the rendered chat as the original trimmed string, under
\* the role of its block.
C19_EscapingRoundTrips ==
    (/\ esc_pc = "parsed"
     /\ \A i \in 1 .. Len(esc_content) : esc_content[i] \in Printable \ {"&"})
        => esc_parsed = <<"Ok", esc_role, trim(esc_content)>>

\* A quote followed by a brace came back from the parse.
C19_Witness ==
    /\ esc_pc = "parsed"
    /\ esc_content = <<"\"", "{">>
    /\ esc_rendered = <<"[", RoleOpen, esc_role, ContentOpen,
                        "\\", "\"", "\\", "u", "0", "0", "7", "B", ObjectClose, "]">>
    /\ esc_parsed = <<"Ok", esc_role, <<"\"", "{">>>>

(***************************************************************************)
(* Part XII.  TextGeneration::run                                          *)
(***************************************************************************)
InitTg ==
    /\ MROff
    /\ EmbOff
    /\ PLOff
    /\ LibOff("tg")
    /\ tg_sample_len = 0
    /\ tg_prompt_len = 0
    /\ tg_tokens = <<>>
    /\ tg_generated = 0
    /\ tg_index = 0
    /\ tg_output = <<>>
    /\ tg_ret = "none"
    /\ tg_pc = "idle"

\* if next_token == eos_token { break; }
BreaksMut(next_token, eos_token) == FALSE

Breaks(next_token, eos_token) == next_token = eos_token

\* run(prompt, sample_len, output) up to the loop: the prompt is encoded, the
\* text next_token gives for its token (if any) is written, and the </s>
\* token is looked up; the run bails out when the tokenizer has none.
RunStart(prompt, sample_len, shown, has_eos) ==
    /\ tg_pc = "idle"
    /\ tg_sample_len' = sample_len
    /\ tg_prompt_len' = Len(prompt)
    /\ tg_tokens' = prompt
    /\ tg_output' = IF shown THEN <<<<"prompt", prompt[1]>>>> ELSE <<>>
    /\ tg_generated' = 0
    /\ tg_index' = 0
    /\ IF has_eos
       THEN /\ tg_pc' = IF sample_len > 0 THEN "loop" ELSE "after"
            /\ tg_ret' = tg_ret
       ELSE /\ tg_pc' = "done"
            /\ tg_ret' = "Err"
    /\ UNCHANGED nonTgVars

\* One iteration of for index in 0..sample_len: a token is sampled, pushed
\* and counted; the loop breaks on the end-of-sequence token, otherwise the
\* text next_token gives (if any) is written.
SampleStep(next_token, shown) ==
    /\ tg_pc = "loop"
    /\ tg_index < tg_sample_len
    /\ tg_tokens' = Append(tg_tokens, next_token)
    /\ tg_generated' = tg_generated + 1
    /\ IF Breaks(next_token, EosToken)
       THEN /\ tg_pc' = "after"
            /\ UNCHANGED <<tg_output, tg_index>>
       ELSE /\ tg_output' = IF shown THEN Append(tg_output, <<"sampled", next_token>>)
                                     ELSE tg_output
            /\ tg_index' = tg_index + 1
            /\ tg_pc' = IF tg_index + 1 < tg_sample_len THEN "loop" ELSE "after"
    /\ UNCHANGED <<tg_sample_len, tg_prompt_len, tg_ret>>
    /\ UNCHANGED nonTgVars

\* The forward pass, the sampling or a write failed: run returns the error.
SampleFail ==
    /\ tg_pc = "loop"
    /\ tg_pc' = "done"
    /\ tg_ret' = "Err"
    /\ UNCHANGED <<tg_sample_len, tg_prompt_len, tg_tokens, tg_generated, tg_index, tg_output>>
    /\ UNCHANGED nonTgVars

\* After the loop: the rest of the decoder goes to the standard output, the
\* sink is flushed, and run returns Ok(()).
RunFinish ==
    /\ tg_pc = "after"
    /\ tg_pc' = "done"
    /\ tg_ret' = "Ok"
    /\ UNCHANGED <<tg_sample_len, tg_prompt_len, tg_tokens, tg_generated, tg_index, tg_output>>
    /\ UNCHANGED nonTgVars

NextTg ==
    \/ \E token \in Vocabulary, sample_len \in 0 .. MaxSampleLen, shown \in BOOLEAN,
          has_eos \in BOOLEAN :
          RunStart(<<token>>, sample_len, shown, has_eos)
    \/ \E next_token \in Vocabulary, shown \in BOOLEAN : SampleStep(next_token, shown)
    \/ SampleFail
    \/ RunFinish

SpecTg == InitTg /\ [][NextTg]_vars

\* The tokens sampled so far.
Sampled == SubSeq(tg_tokens, tg_prompt_len + 1, Len(tg_tokens))

\* C20: the loop samples at most sample_len tokens; an end-of-sequence token
\* is the last token sampled and the loop is left as soon as it is sampled;
\* it is never written to the output sink.
C20_StopsAtEosOrSampleLen ==
    /\ Len(Sampled) <= tg_sample_len
    /\ tg_generated = Len(Sampled)
    /\ \A i \in 1 .. Len(Sampled) :
          Sampled[i] = EosToken => (i = Len(Sampled) /\ tg_pc # "loop")
    /\ \A i \in 1 .. Len(tg_output) :
          tg_output[i][1] = "sampled" => tg_output[i][2] # EosToken
    /\ Len(Sampled) = tg_sample_len => tg_pc # "loop"

\* A run with room for more tokens ended on an end-of-sequence token after
\* writing a sampled token.
C20_Witness ==
    /\ tg_pc = "done"
    /\ tg_ret = "Ok"
    /\ tg_sample_len = MaxSampleLen
    /\ Sampled = <<"a", EosToken>>
    /\ tg_output = <<<<"prompt", "b">>, <<"sampled", "a">>>>

(***************************************************************************)
(* Part XIII.  Shared encoder back-end (Bert)                              *)
(***************************************************************************)
\* The padding the two entry points configure: with_padding(None) for one
\* prompt, PaddingStrategy::BatchLongest for a batch.
PaddingOf(kind) == IF kind = "single" THEN "None" ELSE "BatchLongest"

InitBert ==
    /\ MROff
    /\ EmbOff
    /\ PLOff
    /\ LibOff("bert")
    /\ bert_loaded \in BOOLEAN
    /\ tok_writer = 0
    /\ tok_padding = "None"
    /\ bert_pc = [c \in Embedders |-> "idle"]
    /\ bert_kind = [c \in Embedders |-> "none"]
    /\ bert_ret = [c \in Embedders |-> "none"]
    /\ bert_calls = [c \in Embedders |-> 0]

\* generate_embedding / generate_embeddings is called: an error when the model
\* or the tokenizer is not initialized, otherwise the caller goes on to
\* self.tokenizer.as_ref().unwrap().write().await.
BertCall(c, kind) ==
    /\ bert_pc[c] = "idle"
    /\ bert_calls[c] < MaxBertCalls
    /\ bert_calls' = [bert_calls EXCEPT ![c] = @ + 1]
    /\ bert_kind' = [bert_kind EXCEPT ![c] = kind]
    /\ IF bert_loaded
       THEN /\ bert_pc' = [bert_pc EXCEPT ![c] = "acquire"]
            /\ bert_ret' = [bert_ret EXCEPT ![c] = "none"]
       ELSE /\ bert_pc' = bert_pc
            /\ bert_ret' = [bert_ret EXCEPT ![c] = "Err"]
    /\ UNCHANGED <<bert_loaded, tok_writer, tok_padding>>
    /\ UNCHANGED nonBertVars

\* write().await returns the guard, bound to a local of the function body.
BertAcquire(c) ==
    /\ bert_pc[c] = "acquire"
    /\ tok_writer = 0
    /\ tok_writer' = c
    /\ bert_pc' = [bert_pc EXCEPT ![c] = "encode"]
    /\ UNCHANGED <<bert_loaded, tok_padding, bert_kind, bert_ret, bert_calls>>
    /\ UNCHANGED nonBertVars

\* Padding and truncation are configured and the prompts encoded; `?` on a
\* failure returns the error, which drops the guard.
BertEncode(c, ok) ==
    /\ bert_pc[c] = "encode"
    /\ tok_padding' = PaddingOf(bert_kind[c])
    /\ IF ok
       THEN /\ bert_pc' = [bert_pc EXCEPT ![c] = "forward"]
            /\ UNCHANGED <<tok_writer, bert_ret>>
       ELSE /\ bert_pc' = [bert_pc EXCEPT ![c] = "idle"]
            /\ bert_ret' = [bert_ret EXCEPT ![c] = "Err"]
            /\ tok_writer' = 0
    /\ UNCHANGED <<bert_loaded, bert_kind, bert_calls>>
    /\ UNCHANGED nonBertVars

\* model.forward(..) and the return: the guard is a local that lives to the
\* end of the function, so it is dropped only when the call returns.
BertForward(c, ok) ==
    /\ bert_pc[c] = "forward"
    /\ bert_pc' = [bert_pc EXCEPT ![c] = "idle"]
    /\ bert_ret' = [bert_ret EXCEPT ![c] = IF ok THEN "Ok" ELSE "Err"]
    /\ tok_writer' = 0
    /\ UNCHANGED <<bert_loaded, tok_padding, bert_kind, bert_calls>>
    /\ UNCHANGED nonBertVars

NextBert ==
    \/ \E c \in Embedders, kind \in {"single", "batch"} : BertCall(c, kind)
    \/ \E c \in Embedders : BertAcquire(c)
    \/ \E c \in Embedders, ok \in BOOLEAN : BertEncode(c, ok)
    \/ \E c \in Embedders, ok \in BOOLEAN : BertForward(c, ok)

SpecBert == InitBert /\ [][NextBert]_vars

\* C25: the tokenizer write lock covers only the configuration and the encode
\* call: no two callers configure or encode at the same time, and a caller in
\* its forward pass no longer holds the lock.
C25_LockReleasedBeforeForward ==
    /\ \A c, d \in Embedders : (bert_pc[c] = "encode" /\ bert_pc[d] = "encode") => c = d
    /\ \A c \in Embedders : bert_pc[c] = "forward" => tok_writer # c

(***************************************************************************)
(* Part XIV.  LLMPipeline::duplicate_template                              *)
(***************************************************************************)
\* The registry is a set of <<name, body>> pairs with one pair per name; a
\* name is a base name followed by the uuids appended to it.
RegisteredNames(reg) == {e[1] : e \in reg}

\* TemplateEngine::get_template: Some(body) as a one-element set, None as {}.
get_template(reg, name) == {e[2] : e \in {x \in reg : x[1] = name}}

\* TemplateEngine::register_template: templates.insert(name, body).
register_template(reg, name, body) == {e \in reg : e[1] # name} \cup {<<name, body>>}

\* format!("{}-{}", name, uuid::Uuid::new_v4())
TemplateNameMut(name, uuid) == name

TemplateName(name, uuid) == Append(name, uuid)

\* The uuids some registered name carries; new_v4 draws one no name carries.
UsedUuids(reg) == UNION {{n[i] : i \in 2 .. Len(n)} : n \in RegisteredNames(reg)}

\* with_template(name, body): one chat template is registered.
InitDup ==
    /\ MROff
    /\ EmbOff
    /\ PLOff
    /\ LibOff("dup")
    /\ registry = {<<<<<<"name", 0>>>>, ChatBody>>}
    /\ dup_before = registry
    /\ dup_call = <<"none", <<>>>>
    /\ dup_ret = <<"none", <<>>>>
    /\ dup_calls = 0

\* duplicate_template(name): the body of name is registered in a clone of the
\* engine under the new name and the clone replaces the engine; an error when
\* name is not registered.
DuplicateTemplate(name, uuid) ==
    /\ dup_calls < MaxDupCalls
    /\ uuid \notin UsedUuids(registry)
    /\ dup_calls' = dup_calls + 1
    /\ dup_before' = registry
    /\ dup_call' = <<"duplicate_template", name>>
    /\ IF get_template(registry, name) # {}
       THEN /\ registry' = register_template(registry, TemplateName(name, uuid),
                                             CHOOSE body \in get_template(registry, name) : TRUE)
            /\ dup_ret' = <<"Ok", TemplateName(name, uuid)>>
       ELSE /\ registry' = registry
            /\ dup_ret' = <<"Err", name>>
    /\ UNCHANGED nonDupVars

\* template_engine.add_to_template(name, suffix): nothing when name is not registered.
DupAddToTemplate(name, suffix) ==
    /\ dup_calls < MaxDupCalls
    /\ dup_calls' = dup_calls + 1
    /\ dup_before' = registry
    /\ dup_call' = <<"add_to_template", name>>
    /\ dup_ret' = <<"none", <<>>>>
    /\ IF get_template(registry, name) # {}
       THEN registry' = register_template(registry, name,
                            add_to_template(CHOOSE body \in get_template(registry, name) : TRUE,
                                            suffix))
       ELSE registry' = registry
    /\ UNCHANGED nonDupVars

\* The names a call may be given: the registered ones and the base names.
CallNames == RegisteredNames(registry) \cup {<<b>> : b \in BaseNames}

NextDup ==
    \/ \E name \in CallNames, uuid \in Uuids : DuplicateTemplate(name, uuid)
    \/ \E name \in CallNames, block \in RoleBlocks : DupAddToTemplate(name, <<block>>)

SpecDup == InitDup /\ [][NextDup]_vars

\* The registry agrees with what it was before the last call on every name but those given.
SameExcept(names) ==
    /\ {e \in registry : e[1] \notin names} = {e \in dup_before : e[1] \notin names}
    /\ \A e, f \in registry : e[1] = f[1] => e = f

\* C26: duplicate_template on a registered name returns a fresh name made of
\* the name and a uuid, registered with the body of name, every other template
\* unchanged; on an unregistered name it fails and changes nothing; and
\* add_to_template on a name changes no other template.
C26_DuplicateIsIndependentCopy ==
    /\ (dup_call[1] = "duplicate_template" /\ dup_call[2] \in RegisteredNames(dup_before)) =>
          /\ dup_ret[1] = "Ok"
          /\ Len(dup_ret[2]) = Len(dup_call[2]) + 1
          /\ SubSeq(dup_ret[2], 1, Len(dup_call[2])) = dup_call[2]
          /\ dup_ret[2][Len(dup_ret[2])] \in Uuids
          /\ dup_ret[2] \notin RegisteredNames(dup_before)
          /\ \E e \in registry, f \in dup_before :
                e[1] = dup_ret[2] /\ f[1] = dup_call[2] /\ e[2] = f[2]
          /\ SameExcept({dup_ret[2]})
    /\ (dup_call[1] = "duplicate_template" /\ dup_call[2] \notin RegisteredNames(dup_before)) =>
          /\ dup_ret[1] = "Err"
          /\ registry = dup_before
    /\ dup_call[1] = "add_to_template" => SameExcept({dup_call[2]})

\* After a duplication and an add_to_template on the original, the copy still
\* holds the body the original had.
C26_Witness ==
    /\ dup_call = <<"add_to_template", <<<<"name", 0>>>>>>
    /\ \E e, f \in registry :
          /\ e[1] = <<<<"name", 0>>>>
          /\ f[1] = <<<<"name", 0>>, <<"uuid", 1>>>>
          /\ f[2] = ChatBody
          /\ e[2] = <<ChatOpen, <<"role", "system", "Be brief">>, <<"role", "user", "Hi">>, ChatClose>>

====
